---------------------------- MODULE Spec2Model ----------------------------
(***************************************************************************)
(* Option pricing engine: parameter validation, the Cox-Ross-Rubinstein    *)
(* binomial lattice, the Monte Carlo pricer over numpy's process-wide      *)
(* random generator, Black-Scholes, the analytic Greeks and the option     *)
(* strategies built from Black-Scholes premiums.                           *)
(*                                                                         *)
(* Floating point numbers are fixed-point integers with SCALE units per    *)
(* 1.0 (rounded towards minus infinity); a float that may be NaN or        *)
(* infinite is a record [k, v] (see Num, NaN, Inf below).                  *)
(***************************************************************************)
EXTENDS Integers, Sequences, FiniteSets, TLC

(***************************************************************************)
(* Bounds of the model.                                                    *)
(***************************************************************************)
\* Largest step count a BinomialTreeModel is constructed or analysed with.
MaxSteps == 2
\* Largest simulation count a MonteCarloModel is constructed or analysed with.
MaxSims == 4
\* Samples of a strategy's analysis range (1000 in the source).
NumSamples == 4

(***************************************************************************)
(* Fixed-point arithmetic standing for float64.                            *)
(***************************************************************************)
SCALE == 10 * 1000

Abs(x) == IF x < 0 THEN -x ELSE x

Sign(x) == IF x < 0 THEN -1 ELSE IF x > 0 THEN 1 ELSE 0

\* Floor division by a divisor of either sign (b # 0).
FloorDiv(a, b) == IF b > 0 THEN a \div b ELSE (-a) \div (-b)

FxMul(a, b) == FloorDiv(a * b, SCALE)

FxDiv(a, b) == FloorDiv(a * SCALE, b)

RECURSIVE FxPow(_, _)
FxPow(a, n) == IF n <= 0 THEN SCALE ELSE FxMul(FxPow(a, n - 1), a)

\* Largest s with s * s <= n, by bisection on [lo, hi).
RECURSIVE ISqrtIn(_, _, _)
ISqrtIn(n, lo, hi) ==
    IF hi - lo <= 1 THEN lo
    ELSE LET mid == (lo + hi) \div 2
         IN  IF mid * mid <= n THEN ISqrtIn(n, mid, hi) ELSE ISqrtIn(n, lo, mid)

\* np.sqrt of a non-negative fixed-point number.
FxSqrt(x) == ISqrtIn(x * SCALE, 0, 46341)

\* Taylor series of e^x for |x| <= 1: sum of x^k / k!, k = 0 .. 10.
RECURSIVE ExpSeries(_, _, _, _)
ExpSeries(x, k, term, acc) ==
    IF k > 10 \/ term = 0 THEN acc
    ELSE LET nxt == FloorDiv(FxMul(term, x), k)
         IN  ExpSeries(x, k + 1, nxt, acc + nxt)

\* np.exp: the series on [-1, 1], e^x = (e^(x/2))^2 outside it.
RECURSIVE FxExp(_)
FxExp(x) ==
    IF Abs(x) <= SCALE THEN ExpSeries(x, 1, SCALE, SCALE)
    ELSE IF x < -12 * SCALE THEN 0
    ELSE LET h == FxExp(FloorDiv(x, 2)) IN FxMul(h, h)

\* ln on [1/2, 2]: 2 * atanh((x - 1) / (x + 1)), five terms.
RECURSIVE LnSeries(_, _, _, _)
LnSeries(y2, k, pw, acc) ==
    IF k > 9 \/ pw = 0 THEN acc
    ELSE LET nxt == FxMul(pw, y2)
         IN  LnSeries(y2, k + 2, nxt, acc + FloorDiv(nxt, k))

\* np.log of a positive fixed-point number: halve or double into [1/2, 2]
\* (ln 2 = 0.6931).
RECURSIVE FxLn(_)
FxLn(x) ==
    IF x > 2 * SCALE THEN 6931 + FxLn(FloorDiv(x, 2))
    ELSE IF 2 * x < SCALE THEN FxLn(2 * x) - 6931
    ELSE LET y == FxDiv(x - SCALE, x + SCALE)
         IN  2 * LnSeries(FxMul(y, y), 3, y, y)

\* scipy norm.pdf: e^(-x^2/2) / sqrt(2 pi).
FxPdf(x) ==
    IF Abs(x) > 4 * SCALE THEN 0
    ELSE FxMul(3989, FxExp(-FloorDiv(FxMul(x, x), 2)))

\* scipy norm.cdf, by the Abramowitz-Stegun polynomial in t = 1/(1 + 0.2316 x).
FxCdfPos(x) ==
    LET t    == FxDiv(SCALE, SCALE + FxMul(2316, x))
        poly == FxMul(t, 3194 + FxMul(t, -3566 + FxMul(t, 17815
                     + FxMul(t, -18213 + FxMul(t, 13303)))))
    IN  SCALE - FxMul(FxPdf(x), poly)

FxCdf(x) ==
    IF x > 6 * SCALE THEN SCALE
    ELSE IF x < -6 * SCALE THEN 0
    ELSE IF x >= 0 THEN FxCdfPos(x) ELSE SCALE - FxCdfPos(-x)

(***************************************************************************)
(* float64 values that may be NaN or infinite, as numpy computes them      *)
(* (a warning, no exception): [k |-> "num", v |-> fixed-point number],     *)
(* NaN, or Inf(1) / Inf(-1).  Zero carries no sign.                        *)
(***************************************************************************)
Num(v) == [k |-> "num", v |-> v]

NaN == [k |-> "nan", v |-> 0]

Inf(sign) == [k |-> "inf", v |-> sign]

XNeg(a) == IF a.k = "nan" THEN NaN ELSE [a EXCEPT !.v = -a.v]

XAdd(a, b) ==
    IF a.k = "nan" \/ b.k = "nan" THEN NaN
    ELSE IF a.k = "inf" /\ b.k = "inf" THEN (IF a.v = b.v THEN a ELSE NaN)
    ELSE IF a.k = "inf" THEN a
    ELSE IF b.k = "inf" THEN b
    ELSE Num(a.v + b.v)

XSub(a, b) == XAdd(a, XNeg(b))

XMul(a, b) ==
    IF a.k = "nan" \/ b.k = "nan" THEN NaN
    ELSE IF a.k = "inf" \/ b.k = "inf"
         THEN (IF a.v = 0 \/ b.v = 0 THEN NaN ELSE Inf(Sign(a.v) * Sign(b.v)))
    ELSE Num(FxMul(a.v, b.v))

XDiv(a, b) ==
    IF a.k = "nan" \/ b.k = "nan" THEN NaN
    ELSE IF a.k = "inf"
         THEN (IF b.k = "inf" THEN NaN
               ELSE Inf(a.v * (IF b.v < 0 THEN -1 ELSE 1)))
    ELSE IF b.k = "inf" THEN Num(0)
    ELSE IF b.v = 0 THEN (IF a.v = 0 THEN NaN ELSE Inf(Sign(a.v)))
    ELSE Num(FxDiv(a.v, b.v))

XSqrt(a) ==
    IF a.k = "nan" \/ a.v < 0 THEN NaN
    ELSE IF a.k = "inf" THEN a
    ELSE Num(FxSqrt(a.v))

XLog(a) ==
    IF a.k = "nan" \/ a.v < 0 THEN NaN
    ELSE IF a.k = "inf" THEN a
    ELSE IF a.v = 0 THEN Inf(-1)
    ELSE Num(FxLn(a.v))

XExp(a) ==
    IF a.k = "nan" THEN NaN
    ELSE IF a.k = "inf" THEN (IF a.v > 0 THEN a ELSE Num(0))
    ELSE Num(FxExp(a.v))

XCdf(a) ==
    IF a.k = "nan" THEN NaN
    ELSE IF a.k = "inf" THEN Num(IF a.v > 0 THEN SCALE ELSE 0)
    ELSE Num(FxCdf(a.v))

XPdf(a) ==
    IF a.k = "nan" THEN NaN
    ELSE IF a.k = "inf" THEN Num(0)
    ELSE Num(FxPdf(a.v))

\* a / n for a positive integer n.
XOver(a, n) == IF a.k = "num" THEN Num(FloorDiv(a.v, n)) ELSE a

\* The x in [lo, hi] where FxCdf first reaches pr, by bisection.
RECURSIVE PpfIn(_, _, _)
PpfIn(pr, lo, hi) ==
    IF hi - lo <= 1 THEN hi
    ELSE LET mid == FloorDiv(lo + hi, 2)
         IN  IF FxCdf(mid) >= pr THEN PpfIn(pr, lo, mid) ELSE PpfIn(pr, mid, hi)

\* scipy stats.norm.ppf: NaN outside [0, 1], infinite at 0 and 1.
XPpf(pr) ==
    IF pr < 0 \/ pr > SCALE THEN NaN
    ELSE IF pr = 0 THEN Inf(-1)
    ELSE IF pr = SCALE THEN Inf(1)
    ELSE IF 2 * pr = SCALE THEN Num(0)
    ELSE Num(PpfIn(pr, -6 * SCALE, 6 * SCALE))

(***************************************************************************)
(* Python values.                                                          *)
(***************************************************************************)
\* Optional[x]: None is the empty sequence, a value x is <<x>>.
None == <<>>

\* A local variable assigned once: F applied to the value of v.
Bind(v, F(_)) == CHOOSE y \in {F(x) : x \in {v}} : TRUE

Some(x) == <<x>>

\* str.lower() on the option-type strings the callers pass.
Lower(s) ==
    CASE s = "CALL" -> "call"
      [] s = "Call" -> "call"
      [] s = "PUT"  -> "put"
      [] s = "Put"  -> "put"
      [] OTHER      -> s

\* The six pricing parameters of one call, as fixed-point numbers.
Params(spot, strike, time_to_maturity, risk_free_rate, volatility, option_type) ==
    [spot |-> spot, strike |-> strike, time_to_maturity |-> time_to_maturity,
     risk_free_rate |-> risk_free_rate, volatility |-> volatility,
     option_type |-> option_type]

(***************************************************************************)
(* OptionPricingModel (models/base_model.py).                              *)
(***************************************************************************)
\* validate_inputs with the checks on volatility and time swapped and the
\* rate's upper bound exclusive.
validate_inputs_swapped(q) ==
    IF q.spot <= 0 THEN "ValueError:spot"
    ELSE IF q.strike <= 0 THEN "ValueError:strike"
    ELSE IF q.volatility <= 0 THEN "ValueError:volatility"
    ELSE IF q.time_to_maturity <= 0 THEN "ValueError:time_to_maturity"
    ELSE IF q.risk_free_rate < -(SCALE \div 10) \/ q.risk_free_rate >= SCALE \div 2
         THEN "ValueError:risk_free_rate"
    ELSE IF Lower(q.option_type) \notin {"call", "put"} THEN "ValueError:option_type"
    ELSE "none"

\* validate_inputs: the exception it raises, "none" when it returns True.
validate_inputs(q) ==
    IF q.spot <= 0 THEN "ValueError:spot"
    ELSE IF q.strike <= 0 THEN "ValueError:strike"
    ELSE IF q.time_to_maturity <= 0 THEN "ValueError:time_to_maturity"
    ELSE IF q.volatility <= 0 THEN "ValueError:volatility"
    ELSE IF q.risk_free_rate < -(SCALE \div 10) \/ q.risk_free_rate > SCALE \div 2
         THEN "ValueError:risk_free_rate"
    ELSE IF Lower(q.option_type) \notin {"call", "put"} THEN "ValueError:option_type"
    ELSE "none"

\* _get_option_type: lower().strip() of a validated option type.
get_option_type(option_type) == Lower(option_type)

(***************************************************************************)
(* BinomialTreeModel (models/binomial_tree.py).                            *)
(***************************************************************************)
\* __init__: every argument is stored as given; no lattice is retained yet.
\* ctor_num_steps and ctor_american remember the constructor's arguments.
BinomialTreeModel(num_steps, american) ==
    [num_steps |-> num_steps, american |-> american,
     last_price_tree |-> None, last_option_tree |-> None,
     last_exercise_tree |-> None,
     ctor_num_steps |-> num_steps, ctor_american |-> american,
     last_ok |-> None]

\* The CRR parameters of lines 94-98.
TreeParameters(q, num_steps) ==
    LET dt == FloorDiv(q.time_to_maturity, num_steps)
        u  == FxExp(FxMul(q.volatility, FxSqrt(dt)))
        d  == FxDiv(SCALE, u)
    IN  [dt |-> dt, u |-> u, d |-> d,
         p |-> FxDiv(FxExp(FxMul(q.risk_free_rate, dt)) - d, u - d),
         discount |-> FxExp(-FxMul(q.risk_free_rate, dt))]

\* np.zeros((n + 1, n + 1)) filled forward: S * u^j * d^(i-j) for j <= i.
BuildPriceTree(spot, u, d, n) ==
    [i \in 0..n |-> [j \in 0..n |->
        IF j <= i THEN FxMul(FxMul(spot, FxPow(u, j)), FxPow(d, i - j)) ELSE 0]]

\* max(0, S - K) for a call, max(0, K - S) for a put.
Intrinsic(option_type, price, strike) ==
    IF option_type = "call"
    THEN (IF price - strike > 0 THEN price - strike ELSE 0)
    ELSE (IF strike - price > 0 THEN strike - price ELSE 0)

\* The option values at expiration (row n of option_tree).
TerminalRow(option_type, price_tree, strike, n) ==
    [j \in 0..n |-> Intrinsic(option_type, price_tree[n][j], strike)]

\* The continuation value of node (i, j) from row i + 1.
ContinuationValue(tp, next_row, j) ==
    FxMul(tp.discount,
          FxMul(tp.p, next_row[j + 1]) + FxMul(SCALE - tp.p, next_row[j]))

\* An American node that always takes the exercise value and sets the flag,
\* whatever the continuation value is.
NodeValue_always_exercise(american, continuation_value, exercise_value) ==
    IF american
    THEN [value |-> exercise_value, exercise |-> TRUE]
    ELSE [value |-> continuation_value, exercise |-> FALSE]

\* One node of the backward induction (lines 132-147).
NodeValue(american, continuation_value, exercise_value) ==
    IF american
    THEN IF exercise_value > continuation_value
         THEN [value |-> exercise_value, exercise |-> TRUE]
         ELSE [value |-> continuation_value, exercise |-> FALSE]
    ELSE [value |-> continuation_value, exercise |-> FALSE]

\* Backward induction from row i down to row 0; acc holds the rows built so
\* far as [option, exercise], next_row is row i + 1 of option_tree.
RECURSIVE BackwardInduction(_, _, _, _, _, _, _, _)
BackwardInduction(i, n, tp, q, american, price_tree, next_row, acc) ==
    IF i < 0 THEN acc
    ELSE LET option_type == get_option_type(q.option_type)
             node(j) == NodeValue(american,
                                  ContinuationValue(tp, next_row, j),
                                  Intrinsic(option_type, price_tree[i][j], q.strike))
             up(nodes) ==
                 LET row == [j \in 0..n |-> IF j <= i THEN nodes[j].value ELSE 0]
                     ex  == [j \in 0..n |->
                                IF j <= i THEN nodes[j].exercise ELSE FALSE]
                     rest(r) ==
                         BackwardInduction(i - 1, n, tp, q, american, price_tree,
                                           r.option[i], r)
                 IN  Bind([option   |-> [acc.option EXCEPT ![i] = row],
                           exercise |-> [acc.exercise EXCEPT ![i] = ex]], rest)
         IN  Bind([j \in 0..i |-> node(j)], up)

\* The three trees calculate_price builds for num_steps >= 1.
BuildLattice(q, num_steps, american) ==
    LET n    == num_steps
        zero == [i \in 0..n |-> [j \in 0..n |-> 0]]
        no   == [i \in 0..n |-> [j \in 0..n |-> FALSE]]
        trees(price_tree, back) ==
            [price_tree |-> price_tree, option_tree |-> back.option,
             exercise_tree |-> back.exercise]
        induct(tp, price_tree) ==
            LET from(last) ==
                    LET result(back) == trees(price_tree, back)
                    IN  Bind(BackwardInduction(n - 1, n, tp, q, american,
                                 price_tree, last,
                                 [option |-> [zero EXCEPT ![n] = last],
                                  exercise |-> no]),
                             result)
            IN  Bind(TerminalRow(get_option_type(q.option_type), price_tree,
                                 q.strike, n),
                     from)
        forward(tp) ==
            LET backward(price_tree) == induct(tp, price_tree)
            IN  Bind(BuildPriceTree(q.spot, tp.u, tp.d, n), backward)
    IN  Bind(TreeParameters(q, n), forward)

\* np.zeros((0, 0)): the trees of num_steps = -1, which no loop fills.
EmptyLattice ==
    [price_tree |-> <<>>, option_tree |-> <<>>, exercise_tree |-> <<>>]

\* Lines 150-152: the instance retains the three trees.
StoreTrees(self, lattice) ==
    [self EXCEPT !.last_price_tree = Some(lattice.price_tree),
                 !.last_option_tree = Some(lattice.option_tree),
                 !.last_exercise_tree = Some(lattice.exercise_tree)]

\* A calculate_price that builds and retains the trees before it reports the
\* validation error.
BT_calculate_price_late_validation(self, q) ==
    LET err == validate_inputs(q)
        n   == self.num_steps
        stored(lattice) ==
            [self |-> [StoreTrees(self, lattice) EXCEPT !.last_ok = Some(lattice)],
             raised |-> err,
             price |-> IF err = "none" THEN lattice.option_tree[0][0] ELSE 0,
             used_steps |-> n]
    IN  IF n < 1
        THEN [self |-> self,
              raised |-> IF err # "none" THEN err ELSE "ZeroDivisionError",
              price |-> 0, used_steps |-> n]
        ELSE Bind(BuildLattice(q, n, self.american), stored)

\* calculate_price: the instance afterwards, the exception raised ("none"
\* when it returns) and the price returned.  used_steps is the step count
\* line 94 read; last_ok remembers the lattice of the last call that returned.
BT_calculate_price(self, q) ==
    LET err == validate_inputs(q)
        n   == self.num_steps
        out(s, raised, price) ==
            [self |-> s, raised |-> raised, price |-> price, used_steps |-> n]
    IN  IF err # "none" THEN out(self, err, 0)
        ELSE IF n = 0 THEN out(self, "ZeroDivisionError", 0)
        ELSE IF n < -1 THEN out(self, "ValueError:negative dimensions", 0)
        ELSE IF n = -1 THEN out(StoreTrees(self, EmptyLattice), "IndexError", 0)
        ELSE LET stored(lattice) ==
                     out([StoreTrees(self, lattice) EXCEPT !.last_ok = Some(lattice)],
                         "none", lattice.option_tree[0][0])
             IN  Bind(BuildLattice(q, n, self.american), stored)

\* get_tree_data: None until a price tree is retained.
get_tree_data(self) ==
    IF self.last_price_tree = None THEN None
    ELSE Some([price_tree |-> self.last_price_tree[1],
               option_tree |-> self.last_option_tree[1],
               exercise_tree |-> self.last_exercise_tree[1],
               num_steps |-> self.num_steps,
               american |-> self.american])

\* calculate_price called on each parameter set of qs in turn, from the k-th
\* on, until one raises: the instance afterwards, the exception, the prices
\* returned and the step count each call read.
RECURSIVE BT_price_each(_, _, _, _, _)
BT_price_each(self, qs, k, prices, used) ==
    IF k > Len(qs)
    THEN [self |-> self, raised |-> "none", prices |-> prices, used |-> used]
    ELSE LET next(r) ==
                 IF r.raised # "none"
                 THEN [self |-> r.self, raised |-> r.raised, prices |-> prices,
                       used |-> Append(used, r.used_steps)]
                 ELSE BT_price_each(r.self, qs, k + 1, Append(prices, r.price),
                                    Append(used, r.used_steps))
         IN  Bind(BT_calculate_price(self, qs[k]), next)

\* The perturbations of calculate_greeks_numerical (lines 206-209).
H_spot(q) == FxMul(q.spot, SCALE \div 100)

H_vol(q) == FxMul(q.volatility, SCALE \div 100)

H_rate == SCALE \div 10000

H_time == SCALE \div 365

\* The parameter sets calculate_greeks_numerical prices, in call order: base,
\* spot up, spot down, one day less (only when T > h_time), vol up, rate up.
GreeksCalls(q) ==
    <<q, [q EXCEPT !.spot = q.spot + H_spot(q)],
         [q EXCEPT !.spot = q.spot - H_spot(q)]>>
    \o (IF q.time_to_maturity > H_time
        THEN <<[q EXCEPT !.time_to_maturity = q.time_to_maturity - H_time]>>
        ELSE <<>>)
    \o <<[q EXCEPT !.volatility = q.volatility + H_vol(q)],
         [q EXCEPT !.risk_free_rate = q.risk_free_rate + H_rate]>>

\* The finite differences of lines 226-261 from the prices, in call order.
GreeksFromPrices(q, ps) ==
    LET timed == q.time_to_maturity > H_time
        price == ps[1]
        price_up == ps[2]
        price_down == ps[3]
        price_vol_up == ps[IF timed THEN 5 ELSE 4]
        price_rate_up == ps[IF timed THEN 6 ELSE 5]
        theta == IF timed THEN -FxDiv(ps[4] - price, H_time) ELSE 0
    IN  [Delta |-> FxDiv(price_up - price_down, 2 * H_spot(q)),
         Gamma |-> FxDiv(price_up - 2 * price + price_down,
                         FxMul(H_spot(q), H_spot(q))),
         Theta |-> FloorDiv(theta, 365),
         Vega  |-> FloorDiv(FxDiv(price_vol_up - price, H_vol(q)), 100),
         Rho   |-> FloorDiv(FxDiv(price_rate_up - price, H_rate), 100)]

\* A calculate_greeks_numerical that catches the exception of a
\* calculate_price call and returns a bundle of zeros.
BT_calculate_greeks_numerical_defaulting(self, q) ==
    LET bundle(r) ==
            [self |-> r.self, raised |-> "none", calls |-> Len(r.used),
             greeks |-> IF r.raised = "none"
                        THEN Some(GreeksFromPrices(q, r.prices))
                        ELSE Some([Delta |-> 0, Gamma |-> 0, Theta |-> 0,
                                   Vega |-> 0, Rho |-> 0])]
    IN  Bind(BT_price_each(self, GreeksCalls(q), 1, <<>>, <<>>), bundle)

\* calculate_greeks_numerical: the bundle, or the first exception a
\* calculate_price call raised; calls counts the calculate_price calls made.
BT_calculate_greeks_numerical(self, q) ==
    LET bundle(r) ==
            [self |-> r.self, raised |-> r.raised, calls |-> Len(r.used),
             greeks |-> IF r.raised = "none"
                        THEN Some(GreeksFromPrices(q, r.prices)) ELSE None]
    IN  Bind(BT_price_each(self, GreeksCalls(q), 1, <<>>, <<>>), bundle)

\* The loop of get_convergence_analysis (lines 294-300) from the k-th step
\* count on: num_steps is overwritten, then calculate_price is called.
RECURSIVE BT_convergence_loop(_, _, _, _, _, _)
BT_convergence_loop(self, q, step_sizes, k, prices, used) ==
    IF k > Len(step_sizes)
    THEN [self |-> self, raised |-> "none", prices |-> prices, used |-> used]
    ELSE LET next(r) ==
                 IF r.raised # "none"
                 THEN [self |-> r.self, raised |-> r.raised, prices |-> prices,
                       used |-> Append(used, r.used_steps)]
                 ELSE BT_convergence_loop(r.self, q, step_sizes, k + 1,
                                          Append(prices, r.price),
                                          Append(used, r.used_steps))
         IN  Bind(BT_calculate_price([self EXCEPT !.num_steps = step_sizes[k]], q),
                  next)

\* get_convergence_analysis: an exception of calculate_price leaves the
\* loop before line 303 restores num_steps; prices[-1] of an empty list
\* raises after it.
BT_get_convergence_analysis(self, q, step_sizes) ==
    LET original_steps == self.num_steps
        after(r) ==
            LET restored == [r.self EXCEPT !.num_steps = original_steps]
            IN  IF r.raised # "none"
                THEN [self |-> r.self, raised |-> r.raised, used |-> r.used,
                      result |-> None]
                ELSE IF r.prices = <<>>
                THEN [self |-> restored, raised |-> "IndexError",
                      used |-> r.used, result |-> None]
                ELSE [self |-> restored, raised |-> "none", used |-> r.used,
                      result |-> Some([step_sizes |-> step_sizes,
                                       prices |-> r.prices,
                                       final_price |-> r.prices[Len(r.prices)],
                                       convergence |-> TRUE])]
    IN  Bind(BT_convergence_loop(self, q, step_sizes, 1, <<>>, <<>>), after)

\* np.linspace(lo, hi, num): num evenly spaced samples, lo alone when num = 1.
Linspace(lo, hi, num) ==
    [k \in 1..num |-> IF num = 1 THEN lo
                      ELSE lo + FloorDiv((k - 1) * (hi - lo), num - 1)]

\* A scan without the break of line 362: the last flagged step wins.
RECURSIVE FirstExercise_no_break(_, _, _, _, _)
FirstExercise_no_break(exercise_tree, times, i, n, time_to_maturity) ==
    IF i > n THEN time_to_maturity
    ELSE LET later == FirstExercise_no_break(exercise_tree, times, i + 1, n,
                                             time_to_maturity)
         IN  IF exercise_tree[i][i \div 2] /\ later = time_to_maturity
             THEN times[i + 1]
             ELSE later

\* The scan of lines 359-364: times[i] of the first step i whose flag at
\* column i // 2 is set, else time_to_maturity.
RECURSIVE FirstExercise(_, _, _, _, _)
FirstExercise(exercise_tree, times, i, n, time_to_maturity) ==
    IF i > n THEN time_to_maturity
    ELSE IF exercise_tree[i][i \div 2] THEN times[i + 1]
    ELSE FirstExercise(exercise_tree, times, i + 1, n, time_to_maturity)

\* The loop of get_early_exercise_boundary over spot_prices from the k-th on.
RECURSIVE BT_boundary_loop(_, _, _, _, _, _)
BT_boundary_loop(self, q, spot_prices, times, k, boundary) ==
    IF k > Len(spot_prices)
    THEN [self |-> self, raised |-> "none", boundary |-> boundary]
    ELSE LET next(r) ==
                 LET tree_data == get_tree_data(r.self)
                 IN  IF r.raised # "none"
                     THEN [self |-> r.self, raised |-> r.raised,
                           boundary |-> boundary]
                     ELSE BT_boundary_loop(r.self, q, spot_prices, times, k + 1,
                              IF tree_data # None
                              THEN Append(boundary,
                                          FirstExercise(tree_data[1].exercise_tree,
                                                        times, 0, r.self.num_steps,
                                                        q.time_to_maturity))
                              ELSE boundary)
         IN  Bind(BT_calculate_price(self, [q EXCEPT !.spot = spot_prices[k]]),
                  next)

\* get_early_exercise_boundary: None for a European instance; q.spot is unused.
BT_get_early_exercise_boundary(self, spot_range, q, num_points) ==
    IF ~self.american
    THEN [self |-> self, raised |-> "none", result |-> None]
    ELSE IF self.num_steps + 1 < 0
    THEN [self |-> self, raised |-> "ValueError:samples", result |-> None]
    ELSE LET spot_prices == Linspace(spot_range[1], spot_range[2], num_points)
             times == Linspace(0, q.time_to_maturity, self.num_steps + 1)
             after(r) ==
                 [self |-> r.self, raised |-> r.raised,
                  result |-> IF r.raised = "none"
                             THEN Some([spot_prices |-> spot_prices,
                                        exercise_times |-> r.boundary,
                                        times |-> times])
                             ELSE None]
         IN  Bind(BT_boundary_loop(self, q, spot_prices, times, 1, <<>>), after)

(***************************************************************************)
(* numpy's process-wide generator (np.random): a linear congruential       *)
(* stream of 8 states stands for the Mersenne twister.                     *)
(***************************************************************************)
RngStates == 0..7

\* The generator before anything seeded it or drew from it: its first use
\* takes a state from the operating system's entropy.
Unseeded == -1

Entropy(rng) == IF rng = Unseeded THEN {0, 5} ELSE {rng}

\* np.random.seed(seed).
RngSeed(seed) == seed % 8

RngNext(x) == (5 * x + 3) % 8

RECURSIVE RngAdvance(_, _)
RngAdvance(x, k) == IF k <= 0 THEN x ELSE RngAdvance(RngNext(x), k - 1)

\* The standard normal variate a state yields, between -1.75 and 1.75.
Normal(x) == (2 * x - 7) * (SCALE \div 4)

\* np.random.standard_normal((rows, cols)) from state x: entry [t][i] is the
\* (t * cols + i + 1)-th draw (t, i from 0).
StandardNormal(x, rows, cols) ==
    [t \in 1..rows |-> [i \in 1..cols |->
        Normal(RngAdvance(x, (t - 1) * cols + i))]]

(***************************************************************************)
(* MonteCarloModel (models/monte_carlo.py).                                *)
(***************************************************************************)
\* The fields __init__ stores; ctor remembers the constructor's arguments.
MonteCarloFields(num_simulations, num_steps, seed, antithetic) ==
    [num_simulations |-> num_simulations, num_steps |-> num_steps,
     seed |-> seed, antithetic |-> antithetic,
     ctor |-> [num_simulations |-> num_simulations, num_steps |-> num_steps,
               seed |-> seed, antithetic |-> antithetic]]

\* __init__ (lines 46-53): np.random.seed(seed) on the global generator when
\* a seed is given.
MonteCarloModel(rng, num_simulations, num_steps, seed, antithetic) ==
    [self |-> MonteCarloFields(num_simulations, num_steps, seed, antithetic),
     rng  |-> IF seed # None THEN RngSeed(seed[1]) ELSE rng]

\* Line 102: the number of increment sequences drawn (Python's floor //).
NumSims(self) ==
    IF self.antithetic THEN FloorDiv(self.num_simulations, 2)
    ELSE self.num_simulations

\* Antithetic increments that repeat the drawn ones instead of negating them.
RandomNumbers_repeated(self, rng) ==
    LET drawn == StandardNormal(rng, self.num_steps, NumSims(self))
    IN  IF self.antithetic
        THEN [t \in 1..self.num_steps |-> drawn[t] \o drawn[t]]
        ELSE drawn

\* Lines 106-111: the increments of every path, the negated ones appended.
RandomNumbers(self, rng) ==
    LET drawn == StandardNormal(rng, self.num_steps, NumSims(self))
    IN  IF self.antithetic
        THEN [t \in 1..self.num_steps |->
                 drawn[t] \o [i \in 1..NumSims(self) |-> -drawn[t][i]]]
        ELSE drawn

\* Lines 125-128: the price of path i after t steps.
RECURSIVE PathPrice(_, _, _, _, _, _)
PathPrice(spot, drift, diffusion, random_numbers, i, t) ==
    IF t = 0 THEN spot
    ELSE FxMul(PathPrice(spot, drift, diffusion, random_numbers, i, t - 1),
               FxExp(drift + FxMul(diffusion, random_numbers[t][i])))

RECURSIVE SeqSum(_, _)
SeqSum(xs, k) == IF k = 0 THEN 0 ELSE xs[k] + SeqSum(xs, k - 1)

\* np.mean: NaN for an empty array.
Mean(xs) == IF Len(xs) = 0 THEN NaN ELSE Num(FloorDiv(SeqSum(xs, Len(xs)), Len(xs)))

\* calculate_price: the generator afterwards, the exception raised ("none"
\* when it returns) and the price.  used_sims is the simulation count line
\* 102 read, paths the number of simulated paths, random_numbers the
\* increments the paths were simulated with.
MC_calculate_price(self, rng, q) ==
    LET err == validate_inputs(q)
        out(g, raised, price, paths, random_numbers) ==
            [rng |-> g, raised |-> raised, price |-> price, paths |-> paths,
             used_sims |-> self.num_simulations,
             random_numbers |-> random_numbers]
    IN  IF err # "none" THEN out(rng, err, NaN, 0, <<>>)
        ELSE IF self.num_steps = 0 THEN out(rng, "ZeroDivisionError", NaN, 0, <<>>)
        ELSE IF self.num_steps < 0 \/ NumSims(self) < 0
        THEN out(rng, "ValueError:negative dimensions", NaN, 0, <<>>)
        ELSE LET option_type == get_option_type(q.option_type)
                 dt == FloorDiv(q.time_to_maturity, self.num_steps)
                 discount == FxExp(-FxMul(q.risk_free_rate, q.time_to_maturity))
                 simulated(g) ==
                     LET paths == Len(g.random_numbers[1])
                         priced(payoffs) ==
                             out(RngAdvance(rng, self.num_steps * NumSims(self)),
                                 "none", XMul(Num(discount), Mean(payoffs)),
                                 paths, g.random_numbers)
                     IN  Bind([i \in 1..paths |->
                                  Intrinsic(option_type,
                                            PathPrice(q.spot, g.drift, g.diffusion,
                                                      g.random_numbers, i,
                                                      self.num_steps),
                                            q.strike)],
                              priced)
             IN  Bind([random_numbers |-> RandomNumbers(self, rng),
                       drift |-> FxMul(q.risk_free_rate
                                       - FloorDiv(FxMul(q.volatility,
                                                        q.volatility), 2), dt),
                       diffusion |-> FxMul(q.volatility, FxSqrt(dt))],
                      simulated)

\* The loop of get_convergence_analysis (lines 283-289) from the k-th size on.
RECURSIVE MC_convergence_loop(_, _, _, _, _, _, _)
MC_convergence_loop(self, rng, q, simulation_sizes, k, prices, used) ==
    IF k > Len(simulation_sizes)
    THEN [self |-> self, rng |-> rng, raised |-> "none", prices |-> prices,
          used |-> used]
    ELSE LET sized == [self EXCEPT !.num_simulations = simulation_sizes[k]]
             next(r) ==
                 IF r.raised # "none"
                 THEN [self |-> sized, rng |-> r.rng, raised |-> r.raised,
                       prices |-> prices, used |-> Append(used, r.used_sims)]
                 ELSE MC_convergence_loop(sized, r.rng, q, simulation_sizes,
                                          k + 1, Append(prices, r.price),
                                          Append(used, r.used_sims))
         IN  Bind(MC_calculate_price(sized, rng, q), next)

\* A get_convergence_analysis without line 292: num_simulations keeps the
\* last size of the list.
MC_get_convergence_analysis_unrestored(self, rng, q, simulation_sizes) ==
    LET after(r) ==
            IF r.raised # "none"
            THEN [self |-> r.self, rng |-> r.rng, raised |-> r.raised,
                  used |-> r.used, result |-> None]
            ELSE IF r.prices = <<>>
            THEN [self |-> r.self, rng |-> r.rng, raised |-> "IndexError",
                  used |-> r.used, result |-> None]
            ELSE [self |-> r.self, rng |-> r.rng, raised |-> "none",
                  used |-> r.used,
                  result |-> Some([simulation_sizes |-> simulation_sizes,
                                   prices |-> r.prices,
                                   final_price |-> r.prices[Len(r.prices)],
                                   convergence |-> TRUE])]
    IN  Bind(MC_convergence_loop(self, rng, q, simulation_sizes, 1, <<>>, <<>>),
             after)

\* get_convergence_analysis: an exception of calculate_price leaves the loop
\* before line 292 restores num_simulations.
MC_get_convergence_analysis(self, rng, q, simulation_sizes) ==
    LET original_sims == self.num_simulations
        after(r) ==
            LET restored == [r.self EXCEPT !.num_simulations = original_sims]
            IN  IF r.raised # "none"
                THEN [self |-> r.self, rng |-> r.rng, raised |-> r.raised,
                      used |-> r.used, result |-> None]
                ELSE IF r.prices = <<>>
                THEN [self |-> restored, rng |-> r.rng, raised |-> "IndexError",
                      used |-> r.used, result |-> None]
                ELSE [self |-> restored, rng |-> r.rng, raised |-> "none",
                      used |-> r.used,
                      result |-> Some([simulation_sizes |-> simulation_sizes,
                                       prices |-> r.prices,
                                       final_price |-> r.prices[Len(r.prices)],
                                       convergence |-> TRUE])]
    IN  Bind(MC_convergence_loop(self, rng, q, simulation_sizes, 1, <<>>, <<>>),
             after)

\* The loop of calculate_price_with_confidence (lines 179-191) from the
\* k-th batch on: num_simulations is overwritten, calculate_price is called,
\* num_simulations is restored.
RECURSIVE MC_batch_loop(_, _, _, _, _, _, _, _)
MC_batch_loop(self, rng, q, batch_size, k, prices, used, paths) ==
    IF k > 10
    THEN [self |-> self, rng |-> rng, raised |-> "none", prices |-> prices,
          used |-> used, paths |-> paths]
    ELSE LET original_sims == self.num_simulations
             sized == [self EXCEPT !.num_simulations = batch_size]
             next(r) ==
                 IF r.raised # "none"
                 THEN [self |-> sized, rng |-> r.rng, raised |-> r.raised,
                       prices |-> prices, used |-> Append(used, r.used_sims),
                       paths |-> paths]
                 ELSE MC_batch_loop([sized EXCEPT !.num_simulations = original_sims],
                                    r.rng, q, batch_size, k + 1,
                                    Append(prices, r.price),
                                    Append(used, r.used_sims),
                                    Append(paths, r.paths))
         IN  Bind(MC_calculate_price(sized, rng, q), next)

RECURSIVE XSum(_, _)
XSum(xs, k) == IF k = 0 THEN Num(0) ELSE XAdd(xs[k], XSum(xs, k - 1))

\* np.mean of a non-empty array of floats.
XMean(xs) == XOver(XSum(xs, Len(xs)), Len(xs))

\* np.std: the root of the mean squared deviation from the mean.
XStd(xs) ==
    LET m == XMean(xs)
        dev == [k \in 1..Len(xs) |-> XMul(XSub(xs[k], m), XSub(xs[k], m))]
    IN  XSqrt(XMean(dev))

\* calculate_price_with_confidence: ten batches of num_simulations // 10.
MC_calculate_price_with_confidence(self, rng, q, confidence_level) ==
    LET batch_size == FloorDiv(self.num_simulations, 10)
        interval(r, s) ==
            LET margin == XMul(s.z_score, s.std_error)
            IN  Some([price |-> s.mean_price, std_error |-> s.std_error,
                      lower_bound |-> XSub(s.mean_price, margin),
                      upper_bound |-> XAdd(s.mean_price, margin),
                      confidence_level |-> confidence_level])
        after(r) ==
            LET stats(s) == interval(r, s)
            IN  [self |-> r.self, rng |-> r.rng, raised |-> r.raised,
                 used |-> r.used, batch_prices |-> r.prices,
                 batch_paths |-> r.paths,
                 result |->
                     IF r.raised # "none" THEN None
                     ELSE Bind([mean_price |-> XMean(r.prices),
                                std_error |-> XDiv(XStd(r.prices),
                                                   XSqrt(Num(10 * SCALE))),
                                z_score |-> XPpf(FloorDiv(SCALE + confidence_level,
                                                          2))],
                               stats)]
    IN  Bind(MC_batch_loop(self, rng, q, batch_size, 1, <<>>, <<>>, <<>>), after)

(***************************************************************************)
(* BlackScholesModel (models/black_scholes.py).                            *)
(***************************************************************************)
\* _calculate_d1 on validated parameters.
BS_calculate_d1(q) ==
    FxDiv(FxLn(FxDiv(q.spot, q.strike))
          + FxMul(q.risk_free_rate
                  + FloorDiv(FxMul(q.volatility, q.volatility), 2),
                  q.time_to_maturity),
          FxMul(q.volatility, FxSqrt(q.time_to_maturity)))

\* _calculate_d2.
BS_calculate_d2(d1, q) == d1 - FxMul(q.volatility, FxSqrt(q.time_to_maturity))

\* calculate_price: the exception raised ("none" when it returns), the price.
BS_calculate_price(q) ==
    LET err == validate_inputs(q)
        d1 == BS_calculate_d1(q)
        d2 == BS_calculate_d2(d1, q)
        pv_strike == FxMul(q.strike,
                           FxExp(-FxMul(q.risk_free_rate, q.time_to_maturity)))
    IN  IF err # "none" THEN [raised |-> err, price |-> 0]
        ELSE [raised |-> "none",
              price |-> IF get_option_type(q.option_type) = "call"
                        THEN FxMul(q.spot, FxCdf(d1)) - FxMul(pv_strike, FxCdf(d2))
                        ELSE FxMul(pv_strike, FxCdf(-d2)) - FxMul(q.spot, FxCdf(-d1))]

(***************************************************************************)
(* GreeksCalculator (calculations/greeks.py).  No method validates; numpy  *)
(* turns log of a non-positive number and division by zero into NaN or     *)
(* infinity; only the Python division spot / strike raises.                *)
(***************************************************************************)
\* _calculate_d1 (strike # 0).
GK_calculate_d1(q) ==
    XDiv(XAdd(XLog(Num(FxDiv(q.spot, q.strike))),
              Num(FxMul(q.risk_free_rate
                        + FloorDiv(FxMul(q.volatility, q.volatility), 2),
                        q.time_to_maturity))),
         XMul(Num(q.volatility), XSqrt(Num(q.time_to_maturity))))

GK_d2(q) ==
    XSub(GK_calculate_d1(q),
         XMul(Num(q.volatility), XSqrt(Num(q.time_to_maturity))))

\* K * e^(-rT).
GK_pv_strike(q) ==
    XMul(Num(q.strike),
         XExp(Num(-FxMul(q.risk_free_rate, q.time_to_maturity))))

\* delta: every option type other than "call" takes the put branch.
GK_delta(q) ==
    IF Lower(q.option_type) = "call" THEN XCdf(GK_calculate_d1(q))
    ELSE XSub(XCdf(GK_calculate_d1(q)), Num(SCALE))

GK_gamma(q) ==
    XDiv(XPdf(GK_calculate_d1(q)),
         XMul(Num(FxMul(q.spot, q.volatility)), XSqrt(Num(q.time_to_maturity))))

GK_theta(q) ==
    LET term1 == XNeg(XDiv(XMul(XMul(Num(q.spot), XPdf(GK_calculate_d1(q))),
                                Num(q.volatility)),
                           XMul(Num(2 * SCALE), XSqrt(Num(q.time_to_maturity)))))
        rk == XMul(Num(q.risk_free_rate), GK_pv_strike(q))
    IN  XOver(IF Lower(q.option_type) = "call"
              THEN XSub(term1, XMul(rk, XCdf(GK_d2(q))))
              ELSE XAdd(term1, XMul(rk, XCdf(XNeg(GK_d2(q))))),
              365)

GK_vega(q) ==
    XOver(XMul(XMul(Num(q.spot), XPdf(GK_calculate_d1(q))),
               XSqrt(Num(q.time_to_maturity))),
          100)

GK_rho(q) ==
    LET kt == XMul(Num(q.time_to_maturity), GK_pv_strike(q))
    IN  XOver(IF Lower(q.option_type) = "call"
              THEN XMul(kt, XCdf(GK_d2(q)))
              ELSE XNeg(XMul(kt, XCdf(XNeg(GK_d2(q))))),
              100)

\* calculate_all_greeks: the exception raised ("none" when it returns) and
\* the bundle.
GK_calculate_all_greeks(q) ==
    IF q.strike = 0 THEN [raised |-> "ZeroDivisionError", greeks |-> None]
    ELSE [raised |-> "none",
          greeks |-> Some([Delta |-> GK_delta(q), Gamma |-> GK_gamma(q),
                           Theta |-> GK_theta(q), Vega |-> GK_vega(q),
                           Rho |-> GK_rho(q)])]

(***************************************************************************)
(* OptionLeg / OptionStrategy / StrategyFactory (strategies/options.py).   *)
(* A numpy array is [dtype, data]; a store into an int64 array truncates   *)
(* the stored float towards zero.                                          *)
(***************************************************************************)
Max2(a, b) == IF a >= b THEN a ELSE b

Min2(a, b) == IF a <= b THEN a ELSE b

RECURSIVE SeqMax(_, _)
SeqMax(s, k) == IF k = 1 THEN s[1] ELSE Max2(SeqMax(s, k - 1), s[k])

RECURSIVE SeqMin(_, _)
SeqMin(s, k) == IF k = 1 THEN s[1] ELSE Min2(SeqMin(s, k - 1), s[k])

Array(dtype, data) == [dtype |-> dtype, data |-> data]

\* payoffs[idx] = value on an array of the given dtype.
Store(dtype, value) ==
    IF dtype = "int64" THEN Sign(value) * ((Abs(value) \div SCALE) * SCALE)
    ELSE value

\* The dataclass OptionLeg.
OptionLeg(option_type, strike, position, quantity, premium) ==
    [option_type |-> option_type, strike |-> strike, position |-> position,
     quantity |-> quantity, premium |-> premium]

\* OptionLeg.payoff(spot): every option_type other than 'call' is a put,
\* every position other than 'long' is short.
OptionLeg_payoff(leg, spot) ==
    LET intrinsic == IF leg.option_type = "call"
                     THEN Max2(spot - leg.strike, 0)
                     ELSE Max2(leg.strike - spot, 0)
    IN  IF leg.position = "long"
        THEN (intrinsic - leg.premium) * leg.quantity
        ELSE (leg.premium - intrinsic) * leg.quantity

\* sum(leg.payoff(spot) for leg in legs) over the first k legs.
RECURSIVE TotalPayoff(_, _, _)
TotalPayoff(legs, k, spot) ==
    IF k = 0 THEN 0
    ELSE TotalPayoff(legs, k - 1, spot) + OptionLeg_payoff(legs[k], spot)

\* OptionStrategy(name, legs).
OptionStrategy(name, legs) == [name |-> name, legs |-> legs]

\* calculate_payoff(spot_range): payoffs = np.zeros_like(spot_range) keeps
\* the dtype of spot_range, and each total is stored into it.
calculate_payoff(self, spot_range) ==
    Array(spot_range.dtype,
          [i \in 1..Len(spot_range.data) |->
              Store(spot_range.dtype,
                    TotalPayoff(self.legs, Len(self.legs), spot_range.data[i]))])

\* net_premium() over the first k legs.
RECURSIVE NetPremiumLoop(_, _)
NetPremiumLoop(legs, k) ==
    IF k = 0 THEN 0
    ELSE IF legs[k].position = "long"
         THEN NetPremiumLoop(legs, k - 1) - legs[k].premium * legs[k].quantity
         ELSE NetPremiumLoop(legs, k - 1) + legs[k].premium * legs[k].quantity

net_premium(self) == NetPremiumLoop(self.legs, Len(self.legs))

\* _get_analysis_range() of a strategy with at least one leg (min() of no
\* strikes raises ValueError): NumSamples points stand for the 1000 of
\* np.linspace(start, end, 1000).
get_analysis_range(self) ==
    LET strikes == [k \in 1..Len(self.legs) |-> self.legs[k].strike]
        min_strike == SeqMin(strikes, Len(strikes))
        max_strike == SeqMax(strikes, Len(strikes))
        range_width == max_strike - min_strike
        start == Max2(min_strike - FxMul(SCALE \div 2, range_width),
                      SCALE \div 100)
        end == max_strike + FxMul(SCALE \div 2, range_width)
    IN  Array("float64", Linspace(start, end, NumSamples))

\* max_profit() and max_loss(): the exception raised, the value.
max_profit(self) ==
    IF self.legs = <<>> THEN [raised |-> "ValueError", value |-> 0]
    ELSE LET payoffs == calculate_payoff(self, get_analysis_range(self)).data
         IN  [raised |-> "none", value |-> SeqMax(payoffs, Len(payoffs))]

max_loss(self) ==
    IF self.legs = <<>> THEN [raised |-> "ValueError", value |-> 0]
    ELSE LET payoffs == calculate_payoff(self, get_analysis_range(self)).data
         IN  [raised |-> "none", value |-> SeqMin(payoffs, Len(payoffs))]

\* The loop of break_even_points with the test payoffs[i] * payoffs[i + 1]
\* <= 0 in place of < 0.
RECURSIVE BreakEvenLoop_nonstrict(_, _, _)
BreakEvenLoop_nonstrict(spot_range, payoffs, i) ==
    IF i >= Len(payoffs) THEN <<>>
    ELSE IF payoffs[i] * payoffs[i + 1] <= 0 /\ payoffs[i + 1] # payoffs[i]
         THEN <<spot_range[i]
                 - FloorDiv(payoffs[i] * (spot_range[i + 1] - spot_range[i]),
                            payoffs[i + 1] - payoffs[i])>>
              \o BreakEvenLoop_nonstrict(spot_range, payoffs, i + 1)
         ELSE BreakEvenLoop_nonstrict(spot_range, payoffs, i + 1)

\* The loop of break_even_points from index i on (0-based i of the source is
\* i - 1 here).  A float product keeps its relative precision, so the
\* quotient is rounded once.
RECURSIVE BreakEvenLoop(_, _, _)
BreakEvenLoop(spot_range, payoffs, i) ==
    IF i >= Len(payoffs) THEN <<>>
    ELSE IF FxMul(payoffs[i], payoffs[i + 1]) < 0
         THEN <<spot_range[i]
                 - FloorDiv(payoffs[i] * (spot_range[i + 1] - spot_range[i]),
                            payoffs[i + 1] - payoffs[i])>>
              \o BreakEvenLoop(spot_range, payoffs, i + 1)
         ELSE BreakEvenLoop(spot_range, payoffs, i + 1)

break_even_points(self) ==
    IF self.legs = <<>> THEN [raised |-> "ValueError", value |-> <<>>]
    ELSE LET spot_range == get_analysis_range(self)
             payoffs == calculate_payoff(self, spot_range).data
         IN  [raised |-> "none",
              value |-> BreakEvenLoop(spot_range.data, payoffs, 1)]

\* get_strategy_info() without the risk/reward ratio; analysis_range is the
\* range the three metrics were evaluated over.
get_strategy_info(self) ==
    IF self.legs = <<>> THEN [raised |-> "ValueError"]
    ELSE [raised |-> "none",
          name |-> self.name,
          legs |-> Len(self.legs),
          net_premium |-> net_premium(self),
          max_profit |-> max_profit(self).value,
          max_loss |-> max_loss(self).value,
          break_even_points |-> break_even_points(self).value,
          analysis_range |-> get_analysis_range(self)]

\* StrategyFactory(spot, time_to_maturity, risk_free_rate, volatility).
StrategyFactory(spot, time_to_maturity, risk_free_rate, volatility) ==
    [spot |-> spot, time_to_maturity |-> time_to_maturity,
     risk_free_rate |-> risk_free_rate, volatility |-> volatility]

\* _calculate_premium(option_type, strike), for parameters that validate.
calculate_premium(self, option_type, strike) ==
    BS_calculate_price(Params(self.spot, strike, self.time_to_maturity,
                              self.risk_free_rate, self.volatility,
                              option_type)).price

bull_call_spread(self, lower_strike, upper_strike) ==
    OptionStrategy("Bull Call Spread",
        <<OptionLeg("call", lower_strike, "long", 1,
                    calculate_premium(self, "call", lower_strike)),
          OptionLeg("call", upper_strike, "short", 1,
                    calculate_premium(self, "call", upper_strike))>>)

\* Short put at the upper strike, long put at the lower strike.
bull_put_spread(self, lower_strike, upper_strike) ==
    OptionStrategy("Bull Put Spread",
        <<OptionLeg("put", upper_strike, "short", 1,
                    calculate_premium(self, "put", upper_strike)),
          OptionLeg("put", lower_strike, "long", 1,
                    calculate_premium(self, "put", lower_strike))>>)

\* Short call at the lower strike, long call at the upper strike.
bear_call_spread(self, lower_strike, upper_strike) ==
    OptionStrategy("Bear Call Spread",
        <<OptionLeg("call", lower_strike, "short", 1,
                    calculate_premium(self, "call", lower_strike)),
          OptionLeg("call", upper_strike, "long", 1,
                    calculate_premium(self, "call", upper_strike))>>)

\* The four legs in the order of lines 421-425.
iron_condor(self, put_lower_strike, put_upper_strike, call_lower_strike, call_upper_strike) ==
    OptionStrategy("Iron Condor",
        <<OptionLeg("put", put_lower_strike, "long", 1,
                    calculate_premium(self, "put", put_lower_strike)),
          OptionLeg("put", put_upper_strike, "short", 1,
                    calculate_premium(self, "put", put_upper_strike)),
          OptionLeg("call", call_lower_strike, "short", 1,
                    calculate_premium(self, "call", call_lower_strike)),
          OptionLeg("call", call_upper_strike, "long", 1,
                    calculate_premium(self, "call", call_upper_strike))>>)

long_straddle(self, strike) ==
    OptionStrategy("Long Straddle",
        <<OptionLeg("call", strike, "long", 1,
                    calculate_premium(self, "call", strike)),
          OptionLeg("put", strike, "long", 1,
                    calculate_premium(self, "put", strike))>>)

long_strangle(self, call_strike, put_strike) ==
    OptionStrategy("Long Strangle",
        <<OptionLeg("call", call_strike, "long", 1,
                    calculate_premium(self, "call", call_strike)),
          OptionLeg("put", put_strike, "long", 1,
                    calculate_premium(self, "put", put_strike))>>)

\* butterfly_spread(lower, middle, upper, option_type='call').
butterfly_spread(self, lower_strike, middle_strike, upper_strike) ==
    OptionStrategy("Call Butterfly Spread",
        <<OptionLeg("call", lower_strike, "long", 1,
                    calculate_premium(self, "call", lower_strike)),
          OptionLeg("call", middle_strike, "short", 2,
                    calculate_premium(self, "call", middle_strike)),
          OptionLeg("call", upper_strike, "long", 1,
                    calculate_premium(self, "call", upper_strike))>>)

(***************************************************************************)
(* Inputs.                                                                 *)
(***************************************************************************)
\* Every combination of these is an input of the pure operations.
Spots == {-SCALE, 0, 4 * SCALE}

Strikes == {0, 4 * SCALE, 5 * SCALE}

Times == {0, SCALE}

Rates == {-(SCALE \div 10) - 100, -(SCALE \div 10), SCALE \div 20,
          SCALE \div 2, SCALE \div 2 + 100}

Vols == {0, SCALE \div 10, 3 * (SCALE \div 10)}

OptionTypes == {"call", "put", "PUT", "straddle"}

Inputs ==
    {Params(s, k, t, r, v, o) :
        s \in Spots, k \in Strikes, t \in Times, r \in Rates, v \in Vols,
        o \in OptionTypes}

NoParams == Params(0, 0, 0, 0, 0, "")

\* The parameter sets passed to a pricer instance that lives across calls.
QCall == Params(4 * SCALE, 4 * SCALE, SCALE, SCALE \div 20, SCALE \div 5, "call")

QPut == Params(4 * SCALE, 5 * SCALE, SCALE, SCALE \div 20, SCALE \div 5, "put")

QMaxRate == Params(4 * SCALE, 4 * SCALE, SCALE, SCALE \div 2, 3 * (SCALE \div 10), "PUT")

QBadSpot == Params(0, 4 * SCALE, SCALE, SCALE \div 20, SCALE \div 5, "call")

QBadType == Params(4 * SCALE, 4 * SCALE, SCALE, SCALE \div 20, SCALE \div 5, "straddle")

\* One day to maturity: time_to_maturity = h_time of the numeric Greeks.
QShort ==
    Params(4 * SCALE, 4 * SCALE, SCALE \div 365, SCALE \div 20, SCALE \div 5, "call")

ParamSet == {QPut, QMaxRate, QBadType, QShort}

\* Step counts a BinomialTreeModel is constructed with.
StepCounts == -1..MaxSteps

\* step_sizes lists passed to BinomialTreeModel.get_convergence_analysis.
StepLists == {<<>>, <<1, MaxSteps>>, <<MaxSteps, 0>>}

\* spot_range and num_points passed to get_early_exercise_boundary.
SpotRanges == {<<3 * SCALE, 5 * SCALE>>}

MaxPoints == 2

\* Constructor arguments of the MonteCarloModel instances.
MCConfigs ==
    {<<MaxSims, 2, Some(1), TRUE>>, <<20, 1, Some(2), TRUE>>,
     <<0, 1, None, FALSE>>}

\* The parameter sets passed to the MonteCarloModel instances.
MCParamSet == {QPut, QBadType}

\* simulation_sizes lists passed to MonteCarloModel.get_convergence_analysis.
SimLists == {<<>>, <<2, MaxSims>>, <<MaxSims, -1>>}

ConfidenceLevels == {SCALE - SCALE \div 20, -(SCALE \div 2)}

MCIds == {1, 2}

\* The instances the batch and convergence operations are called on; the
\* other instance is only constructed and priced.
AnalysedIds == {1}

\* The markets a StrategyFactory is constructed with: the one of
\* test_strategies.py (spot 100, strikes 95 / 100 / 105 there, 1/25 of
\* them here), a calmer one, and one far above the strikes.
Markets ==
    {StrategyFactory(4 * SCALE, SCALE, SCALE \div 20, SCALE \div 5),
     StrategyFactory(4 * SCALE, SCALE, 0, SCALE \div 20),
     StrategyFactory(8 * SCALE, SCALE, 0, SCALE \div 10)}

LowerStrike == 4 * SCALE - SCALE \div 5

MiddleStrike == 4 * SCALE

UpperStrike == 4 * SCALE + SCALE \div 5

SpreadStrikes ==
    {<<LowerStrike, UpperStrike>>, <<MiddleStrike, UpperStrike>>,
     <<2 * SCALE, 6 * SCALE>>}

\* The strikes of an iron condor: 85 / 95 / 105 / 115 of test_strategies.py
\* at 1/25, and a condor around the spot of the third market.
CondorStrikes ==
    {<<4 * SCALE - 3 * (SCALE \div 5), LowerStrike, UpperStrike,
       4 * SCALE + 3 * (SCALE \div 5)>>,
     <<5 * SCALE, 7 * SCALE + SCALE \div 5, 8 * SCALE, 10 * SCALE>>}

\* A call spread whose payoff is exactly zero on a sample of its analysis
\* range: strikes 4 and 5.5 give the samples 3.25, 4.25, 5.25, 6.25, and the
\* premium 1.25 puts the zero of the payoff at 5.25.
ZeroOnSample ==
    OptionStrategy("Call Spread",
        <<OptionLeg("call", 4 * SCALE, "long", 1, SCALE + SCALE \div 4),
          OptionLeg("call", 5 * SCALE + SCALE \div 2, "short", 1, 0)>>)

\* Legs built directly, as OptionLeg(option_type, strike, position,
\* quantity, premium) allows.
CustomStrategies ==
    {OptionStrategy("Empty", <<>>),
     OptionStrategy("Long Call",
         <<OptionLeg("call", MiddleStrike, "long", 1, SCALE \div 4)>>),
     OptionStrategy("Covered Put",
         <<OptionLeg("put", LowerStrike, "short", 2, SCALE \div 8),
           OptionLeg("call", UpperStrike, "long", 1, SCALE \div 16)>>),
     ZeroOnSample}

Strategies ==
    {bull_call_spread(f, k[1], k[2]) : f \in Markets, k \in SpreadStrikes}
    \cup {long_straddle(f, k) : f \in Markets,
                                k \in {LowerStrike, MiddleStrike}}
    \cup {long_strangle(f, k[2], k[1]) : f \in Markets, k \in SpreadStrikes}
    \cup {butterfly_spread(f, LowerStrike, MiddleStrike, UpperStrike) :
             f \in Markets}
    \cup CustomStrategies

\* The arrays of terminal spots passed to calculate_payoff: floats, whole
\* numbers (np.array([3, 4, 5]) has dtype int64) and the empty array.
SpotArrays ==
    {Array("float64", <<3 * SCALE + SCALE \div 2, 4 * SCALE + SCALE \div 10,
                        5 * SCALE>>),
     Array("int64", <<3 * SCALE, 4 * SCALE, 5 * SCALE>>),
     Array("float64", <<>>)}

(***************************************************************************)
(* State.                                                                  *)
(***************************************************************************)
VARIABLES
    input,  \* the parameter set the pure operations are applied to
    bt,     \* the BinomialTreeModel instance, None before it is constructed
    mc,     \* the MonteCarloModel instances, None before construction
    rng,    \* the state of numpy's global generator
    ret,    \* what the last operation was called with and what it returned
    threads \* the threads inside a method of the shared instance

vars == <<input, bt, mc, rng, ret, threads>>

(***************************************************************************)
(* Operations on a BinomialTreeModel instance.                             *)
(***************************************************************************)
\* BinomialTreeModel(num_steps, american).  The two pricer classes share no
\* state, so a behaviour holds instances of one class.
BT_Construct(num_steps, american) ==
    /\ bt = None
    /\ \A i \in MCIds : mc[i] = None
    /\ bt' = Some(BinomialTreeModel(num_steps, american))
    /\ ret' = [op |-> "BinomialTreeModel"]
    /\ UNCHANGED <<input, mc, rng, threads>>

BT_CalculatePrice(q) ==
    /\ bt # None
    /\ \E r \in {BT_calculate_price(bt[1], q)} :
           /\ bt' = Some(r.self)
           /\ ret' = [op |-> "bt.calculate_price", q |-> q, raised |-> r.raised,
                      price |-> r.price]
    /\ UNCHANGED <<input, mc, rng, threads>>

BT_GetTreeData ==
    /\ bt # None
    /\ ret' = [op |-> "bt.get_tree_data", data |-> get_tree_data(bt[1])]
    /\ UNCHANGED <<input, bt, mc, rng, threads>>

BT_CalculateGreeksNumerical(q) ==
    /\ bt # None
    /\ \E r \in {BT_calculate_greeks_numerical(bt[1], q)} :
           /\ bt' = Some(r.self)
           /\ ret' = [op |-> "bt.calculate_greeks_numerical", q |-> q,
                      raised |-> r.raised, calls |-> r.calls,
                      greeks |-> r.greeks]
    /\ UNCHANGED <<input, mc, rng, threads>>

BT_GetConvergenceAnalysis(q, step_sizes) ==
    /\ bt # None
    /\ \E r \in {BT_get_convergence_analysis(bt[1], q, step_sizes)} :
           /\ bt' = Some(r.self)
           /\ ret' = [op |-> "bt.get_convergence_analysis", q |-> q,
                      sizes |-> step_sizes, before |-> bt[1].num_steps,
                      raised |-> r.raised, used |-> r.used, result |-> r.result]
    /\ UNCHANGED <<input, mc, rng, threads>>

BT_GetEarlyExerciseBoundary(spot_range, q, num_points) ==
    /\ bt # None
    /\ \E r \in {BT_get_early_exercise_boundary(bt[1], spot_range, q, num_points)} :
           /\ bt' = Some(r.self)
           /\ ret' = [op |-> "bt.get_early_exercise_boundary", q |-> q,
                      spot_range |-> spot_range, num_points |-> num_points,
                      raised |-> r.raised, result |-> r.result]
    /\ UNCHANGED <<input, mc, rng, threads>>

(***************************************************************************)
(* Operations on the MonteCarloModel instances.                            *)
(***************************************************************************)
\* MonteCarloModel(...).  The instances are interchangeable: the second slot
\* is filled after the first.
MC_Construct(id, cfg) ==
    /\ bt = None
    /\ mc[id] = None
    /\ \A j \in MCIds : j < id => mc[j] # None
    /\ \E g \in Entropy(rng) :
         LET r == MonteCarloModel(g, cfg[1], cfg[2], cfg[3], cfg[4])
         IN  /\ mc' = [mc EXCEPT ![id] = Some(r.self)]
             /\ rng' = r.rng
    /\ ret' = [op |-> "MonteCarloModel", id |-> id]
    /\ UNCHANGED <<input, bt, threads>>

MC_CalculatePrice(id, q) ==
    /\ mc[id] # None
    /\ \E r \in {MC_calculate_price(mc[id][1], rng, q)} :
           /\ rng' = r.rng
           /\ ret' = [op |-> "mc.calculate_price", id |-> id, q |-> q,
                      raised |-> r.raised, price |-> r.price, paths |-> r.paths]
    /\ UNCHANGED <<input, bt, mc, threads>>

MC_CalculatePriceWithConfidence(id, q, confidence_level) ==
    /\ mc[id] # None
    /\ \E r \in {MC_calculate_price_with_confidence(mc[id][1], rng, q,
                                                   confidence_level)} :
           /\ mc' = [mc EXCEPT ![id] = Some(r.self)]
           /\ rng' = r.rng
           /\ ret' = [op |-> "mc.calculate_price_with_confidence", id |-> id,
                      q |-> q, raised |-> r.raised, used |-> r.used,
                      batch_prices |-> r.batch_prices,
                      batch_paths |-> r.batch_paths, result |-> r.result]
    /\ UNCHANGED <<input, bt, threads>>

MC_GetConvergenceAnalysis(id, q, simulation_sizes) ==
    /\ mc[id] # None
    /\ \E r \in {MC_get_convergence_analysis(mc[id][1], rng, q, simulation_sizes)} :
           /\ mc' = [mc EXCEPT ![id] = Some(r.self)]
           /\ rng' = r.rng
           /\ ret' = [op |-> "mc.get_convergence_analysis", id |-> id, q |-> q,
                      sizes |-> simulation_sizes,
                      before |-> mc[id][1].num_simulations,
                      raised |-> r.raised, used |-> r.used, result |-> r.result]
    /\ UNCHANGED <<input, bt, threads>>

(***************************************************************************)
(* The pricers' life: construction, then any sequence of calls.            *)
(***************************************************************************)
Init ==
    /\ input = NoParams
    /\ bt = None
    /\ mc = [i \in MCIds |-> None]
    /\ rng = Unseeded
    /\ ret = [op |-> "start"]
    /\ threads = <<>>

Next ==
    \/ \E n \in StepCounts, a \in BOOLEAN : BT_Construct(n, a)
    \/ \E q \in ParamSet : BT_CalculatePrice(q)
    \/ BT_GetTreeData
    \/ \E q \in ParamSet : BT_CalculateGreeksNumerical(q)
    \/ \E q \in ParamSet, l \in StepLists : BT_GetConvergenceAnalysis(q, l)
    \/ \E sr \in SpotRanges, q \in ParamSet, n \in {MaxPoints} :
           BT_GetEarlyExerciseBoundary(sr, q, n)
    \/ \E i \in MCIds, c \in MCConfigs : MC_Construct(i, c)
    \/ \E i \in MCIds, q \in MCParamSet : MC_CalculatePrice(i, q)
    \/ \E i \in AnalysedIds, q \in MCParamSet, cl \in ConfidenceLevels :
           MC_CalculatePriceWithConfidence(i, q, cl)
    \/ \E i \in AnalysedIds, q \in MCParamSet, l \in SimLists :
           MC_GetConvergenceAnalysis(i, q, l)

Spec == Init /\ [][Next]_vars

(***************************************************************************)
(* The pure operations: each is applied to one parameter set, on freshly   *)
(* constructed pricers.                                                    *)
(***************************************************************************)
\* Step counts and the Monte Carlo configuration of the fresh pricers.
PureStepCounts == 1..MaxSteps

PureMCConfig == <<MaxSims, 2, Some(1), TRUE>>

\* The configurations of the fresh MonteCarloModel: an even and an odd
\* simulation count with antithetic variates, and an odd count without.
PureMCConfigs ==
    {PureMCConfig, <<MaxSims - 1, 2, Some(1), TRUE>>,
     <<MaxSims - 1, 1, Some(2), FALSE>>}

\* OptionPricingModel.validate_inputs(**input).
ValidateInputs ==
    /\ ret' = [op |-> "validate_inputs", q |-> input,
               raised |-> validate_inputs(input)]
    /\ UNCHANGED <<input, bt, mc, rng, threads>>

\* BlackScholesModel().calculate_price(**input).
BS_CalculatePrice ==
    /\ \E r \in {BS_calculate_price(input)} :
           ret' = [op |-> "bs.calculate_price", q |-> input,
                   raised |-> r.raised, price |-> r.price]
    /\ UNCHANGED <<input, bt, mc, rng, threads>>

\* BinomialTreeModel(num_steps, american).calculate_price(**input).
BT_PriceOnce(num_steps, american) ==
    /\ \E r \in {BT_calculate_price(BinomialTreeModel(num_steps, american), input)} :
           ret' = [op |-> "bt.calculate_price", q |-> input,
                   num_steps |-> num_steps, american |-> american,
                   raised |-> r.raised, price |-> r.price,
                   data |-> get_tree_data(r.self)]
    /\ UNCHANGED <<input, bt, mc, rng, threads>>

\* MonteCarloModel(*cfg).calculate_price(**input).
MC_PriceOnce(cfg) ==
    /\ \E g \in Entropy(rng) :
         \E m \in {MonteCarloModel(g, cfg[1], cfg[2], cfg[3], cfg[4])} :
           \E r \in {MC_calculate_price(m.self, m.rng, input)} :
               ret' = [op |-> "mc.calculate_price", q |-> input,
                       num_simulations |-> cfg[1], num_steps |-> cfg[2],
                       antithetic |-> cfg[4],
                       raised |-> r.raised, price |-> r.price,
                       paths |-> r.paths,
                       random_numbers |-> r.random_numbers]
    /\ UNCHANGED <<input, bt, mc, rng, threads>>

\* GreeksCalculator.calculate_all_greeks(**input).
GK_CalculateAllGreeks ==
    /\ \E r \in {GK_calculate_all_greeks(input)} :
           ret' = [op |-> "greeks.calculate_all_greeks", q |-> input,
                   raised |-> r.raised, greeks |-> r.greeks]
    /\ UNCHANGED <<input, bt, mc, rng, threads>>

\* TEST 4 of test_binomial_tree.py: the same parameters priced by an
\* American and by a European tree of num_steps steps.
AmericanVsEuropean(num_steps) ==
    /\ \E a \in {BT_calculate_price(BinomialTreeModel(num_steps, TRUE), input)} :
         \E e \in {BT_calculate_price(BinomialTreeModel(num_steps, FALSE), input)} :
           ret' = [op |-> "american_vs_european", q |-> input,
                   num_steps |-> num_steps,
                   raised |-> a.raised,
                   american_price |-> a.price, european_price |-> e.price,
                   american_data |-> get_tree_data(a.self),
                   european_data |-> get_tree_data(e.self)]
    /\ UNCHANGED <<input, bt, mc, rng, threads>>

InitPure ==
    /\ input \in Inputs
    /\ bt = None
    /\ mc = [i \in MCIds |-> None]
    /\ rng = Unseeded
    /\ ret = [op |-> "start"]
    /\ threads = <<>>

NextPure ==
    \/ ValidateInputs
    \/ BS_CalculatePrice
    \/ \E n \in PureStepCounts, a \in BOOLEAN : BT_PriceOnce(n, a)
    \/ \E c \in PureMCConfigs : MC_PriceOnce(c)
    \/ GK_CalculateAllGreeks
    \/ \E n \in PureStepCounts : AmericanVsEuropean(n)

SpecPure == InitPure /\ [][NextPure]_vars

(***************************************************************************)
(* The strategy operations: each is applied to one OptionStrategy, which   *)
(* never changes after construction.                                       *)
(***************************************************************************)
\* strategy.calculate_payoff(spot_range).
ST_CalculatePayoff(spot_range) ==
    /\ ret' = [op |-> "strategy.calculate_payoff", spot_range |-> spot_range,
               payoffs |-> calculate_payoff(input, spot_range)]
    /\ UNCHANGED <<input, bt, mc, rng, threads>>

\* strategy.get_strategy_info().
ST_GetStrategyInfo ==
    /\ \E r \in {get_strategy_info(input)} :
           ret' = [op |-> "strategy.get_strategy_info", info |-> r]
    /\ UNCHANGED <<input, bt, mc, rng, threads>>

\* Section 5 of test_strategies.py: the payoff at every break-even point.
ST_BreakEvenAccuracy ==
    /\ input.legs # <<>>
    /\ \E b \in {break_even_points(input).value} :
           ret' = [op |-> "strategy.break_even_accuracy",
                   break_even_points |-> b,
                   payoffs |-> [i \in 1..Len(b) |->
                       calculate_payoff(input,
                                        Array("float64", <<b[i]>>)).data[1]]]
    /\ UNCHANGED <<input, bt, mc, rng, threads>>

\* Section 4 of test_strategies.py: an iron condor and the two spreads it is
\* made of, built by one factory and evaluated on one array of spots.
ST_IronCondor(factory, k, spot_range) ==
    /\ \E condor \in {iron_condor(factory, k[1], k[2], k[3], k[4])} :
         \E puts \in {bull_put_spread(factory, k[1], k[2])} :
           \E calls \in {bear_call_spread(factory, k[3], k[4])} :
             ret' = [op |-> "factory.iron_condor", dtype |-> spot_range.dtype,
                     spots |-> spot_range.data,
                     condor_legs |-> condor.legs,
                     condor |-> calculate_payoff(condor, spot_range).data,
                     bull_put |-> calculate_payoff(puts, spot_range).data,
                     bear_call |-> calculate_payoff(calls, spot_range).data,
                     condor_premium |-> net_premium(condor),
                     bull_put_premium |-> net_premium(puts),
                     bear_call_premium |-> net_premium(calls)]
    /\ UNCHANGED <<input, bt, mc, rng, threads>>

InitStrategy ==
    /\ input \in Strategies
    /\ bt = None
    /\ mc = [i \in MCIds |-> None]
    /\ rng = Unseeded
    /\ ret = [op |-> "start"]
    /\ threads = <<>>

NextStrategy ==
    \/ \E a \in SpotArrays : ST_CalculatePayoff(a)
    \/ ST_GetStrategyInfo
    \/ ST_BreakEvenAccuracy
    \/ \E f \in Markets, k \in CondorStrikes, a \in SpotArrays :
           ST_IronCondor(f, k, a)

SpecStrategy == InitStrategy /\ [][NextStrategy]_vars

(***************************************************************************)
(* Threads sharing one BinomialTreeModel instance.  Each thread calls one  *)
(* method; a thread switch can fall between any two of the statements      *)
(* below.  A caller that serializes (input.serialized) lets a thread run   *)
(* only while no other thread is inside a method.                          *)
(***************************************************************************)
ThreadIds == {1, 2}

\* A thread: the method it runs and the statement it is at (pc), the
\* method's arguments and locals, what it returned (prices, data), and
\* whether a lattice it built used another step count than its caller asked
\* for (mismatch).
Idle ==
    [pc |-> "idle", op |-> "", q |-> NoParams, step_sizes |-> <<>>, k |-> 0,
     original_steps |-> 0, requested |-> 0, lattice |-> None,
     prices |-> <<>>, data |-> None, mismatch |-> FALSE]

\* The calls the threads make: parameters that validate, positive counts.
ThreadOps == {"calculate_price", "get_tree_data", "get_convergence_analysis"}

ThreadParams == {QMaxRate}

ThreadStepSizes == {<<1>>}

\* External serialization: thread t may take a step.
Turn(t) ==
    input.serialized
        => \A u \in ThreadIds \ {t} : threads[u].pc \in {"idle", "done"}

\* Thread t enters op; a caller of calculate_price asks for the configured
\* step count.
TH_Call(t, op, q, step_sizes) ==
    /\ Turn(t)
    /\ threads[t].pc = "idle"
    /\ threads' = [threads EXCEPT ![t] =
           [Idle EXCEPT !.pc = CASE op = "calculate_price" -> "build"
                                 [] op = "get_tree_data" -> "check"
                                 [] OTHER -> "save",
                        !.op = op, !.q = q, !.step_sizes = step_sizes,
                        !.requested = bt.ctor_num_steps]]
    /\ UNCHANGED <<input, bt, mc, rng, ret>>

\* calculate_price, lines 85-147: reads self.num_steps and builds the trees
\* in locals.
TH_BuildTrees(t) ==
    /\ Turn(t)
    /\ threads[t].pc = "build"
    /\ \E lattice \in {BuildLattice(threads[t].q, bt.num_steps, bt.american)} :
         /\ threads' = [threads EXCEPT ![t].pc = "store_price",
                                       ![t].lattice = Some(lattice),
                                       ![t].mismatch =
                                           @ \/ bt.num_steps # threads[t].requested]
         /\ ret' = [ret EXCEPT !.lattices = @ \cup {lattice}]
    /\ UNCHANGED <<input, bt, mc, rng>>

\* Line 150: self._last_price_tree = price_tree.
TH_StorePriceTree(t) ==
    /\ Turn(t)
    /\ threads[t].pc = "store_price"
    /\ bt' = [bt EXCEPT !.last_price_tree =
                            Some(threads[t].lattice[1].price_tree)]
    /\ threads' = [threads EXCEPT ![t].pc = "store_option"]
    /\ UNCHANGED <<input, mc, rng, ret>>

\* Line 151: self._last_option_tree = option_tree.
TH_StoreOptionTree(t) ==
    /\ Turn(t)
    /\ threads[t].pc = "store_option"
    /\ bt' = [bt EXCEPT !.last_option_tree =
                            Some(threads[t].lattice[1].option_tree)]
    /\ threads' = [threads EXCEPT ![t].pc = "store_exercise"]
    /\ UNCHANGED <<input, mc, rng, ret>>

\* Line 152 with the exercise tree left as it was.
TH_StoreExerciseTree_skipped(t) ==
    /\ Turn(t)
    /\ threads[t].pc = "store_exercise"
    /\ threads' = [threads EXCEPT
           ![t].prices = Append(@, threads[t].lattice[1].option_tree[0][0]),
           ![t].k = IF threads[t].op = "calculate_price" THEN @ ELSE @ + 1,
           ![t].pc = IF threads[t].op = "calculate_price" THEN "done"
                     ELSE IF threads[t].k < Len(threads[t].step_sizes)
                          THEN "set"
                          ELSE "restore"]
    /\ UNCHANGED <<input, bt, mc, rng, ret>>

\* Lines 152-155: self._last_exercise_tree = exercise_tree and the return of
\* the price, to the caller or to the loop of get_convergence_analysis
\* (lines 296-300), which appends it and goes on.
TH_StoreExerciseTree(t) ==
    /\ Turn(t)
    /\ threads[t].pc = "store_exercise"
    /\ bt' = [bt EXCEPT !.last_exercise_tree =
                            Some(threads[t].lattice[1].exercise_tree)]
    /\ threads' = [threads EXCEPT
           ![t].prices = Append(@, threads[t].lattice[1].option_tree[0][0]),
           ![t].k = IF threads[t].op = "calculate_price" THEN @ ELSE @ + 1,
           ![t].pc = IF threads[t].op = "calculate_price" THEN "done"
                     ELSE IF threads[t].k < Len(threads[t].step_sizes)
                          THEN "set"
                          ELSE "restore"]
    /\ UNCHANGED <<input, mc, rng, ret>>

\* get_tree_data, lines 169-170: None while no price tree is retained.
TH_CheckTrees(t) ==
    /\ Turn(t)
    /\ threads[t].pc = "check"
    /\ threads' = [threads EXCEPT
           ![t].pc = IF bt.last_price_tree = None THEN "done" ELSE "read_price"]
    /\ UNCHANGED <<input, bt, mc, rng, ret>>

\* Line 173: 'price_tree': self._last_price_tree.
TH_ReadPriceTree(t) ==
    /\ Turn(t)
    /\ threads[t].pc = "read_price"
    /\ threads' = [threads EXCEPT
           ![t].pc = "read_option",
           ![t].data = Some([price_tree |-> bt.last_price_tree])]
    /\ UNCHANGED <<input, bt, mc, rng, ret>>

\* Line 174: 'option_tree': self._last_option_tree.
TH_ReadOptionTree(t) ==
    /\ Turn(t)
    /\ threads[t].pc = "read_option"
    /\ threads' = [threads EXCEPT
           ![t].pc = "read_exercise",
           ![t].data = Some([price_tree |-> threads[t].data[1].price_tree,
                             option_tree |-> bt.last_option_tree])]
    /\ UNCHANGED <<input, bt, mc, rng, ret>>

\* Lines 175-178: 'exercise_tree': self._last_exercise_tree, and the return.
TH_ReadExerciseTree(t) ==
    /\ Turn(t)
    /\ threads[t].pc = "read_exercise"
    /\ threads' = [threads EXCEPT
           ![t].pc = "done",
           ![t].data = Some([price_tree |-> threads[t].data[1].price_tree,
                             option_tree |-> threads[t].data[1].option_tree,
                             exercise_tree |-> bt.last_exercise_tree])]
    /\ UNCHANGED <<input, bt, mc, rng, ret>>

\* get_convergence_analysis, line 292: original_steps = self.num_steps.
TH_SaveSteps(t) ==
    /\ Turn(t)
    /\ threads[t].pc = "save"
    /\ threads' = [threads EXCEPT ![t].pc = "set", ![t].k = 1,
                                  ![t].original_steps = bt.num_steps]
    /\ UNCHANGED <<input, bt, mc, rng, ret>>

\* Line 295: self.num_steps = steps, the count this pass asks for.
TH_SetSteps(t) ==
    /\ Turn(t)
    /\ threads[t].pc = "set"
    /\ bt' = [bt EXCEPT !.num_steps = threads[t].step_sizes[threads[t].k]]
    /\ threads' = [threads EXCEPT
           ![t].pc = "build",
           ![t].requested = threads[t].step_sizes[threads[t].k]]
    /\ UNCHANGED <<input, mc, rng, ret>>

\* The end of get_convergence_analysis without line 303.
TH_RestoreSteps_skipped(t) ==
    /\ Turn(t)
    /\ threads[t].pc = "restore"
    /\ threads' = [threads EXCEPT ![t].pc = "done"]
    /\ UNCHANGED <<input, bt, mc, rng, ret>>

\* Line 303: self.num_steps = original_steps, and the return.
TH_RestoreSteps(t) ==
    /\ Turn(t)
    /\ threads[t].pc = "restore"
    /\ bt' = [bt EXCEPT !.num_steps = threads[t].original_steps]
    /\ threads' = [threads EXCEPT ![t].pc = "done"]
    /\ UNCHANGED <<input, mc, rng, ret>>

\* The shared instance: fresh, or after one calculate_price(**QCall).
SharedInstances ==
    {BinomialTreeModel(MaxSteps, TRUE),
     BT_calculate_price(BinomialTreeModel(MaxSteps, TRUE), QCall).self}

InitThreads ==
    /\ input \in {[serialized |-> b] : b \in BOOLEAN}
    /\ bt \in SharedInstances
    /\ mc = [i \in MCIds |-> None]
    /\ rng = Unseeded
    /\ ret = [op |-> "threads",
              lattices |-> IF bt.last_ok = None THEN {} ELSE {bt.last_ok[1]}]
    /\ threads = [t \in ThreadIds |-> Idle]

NextThreads ==
    \E t \in ThreadIds :
        \/ \E op \in ThreadOps, q \in ThreadParams, s \in ThreadStepSizes :
               TH_Call(t, op, q, s)
        \/ TH_BuildTrees(t)
        \/ TH_StorePriceTree(t)
        \/ TH_StoreOptionTree(t)
        \/ TH_StoreExerciseTree(t)
        \/ TH_CheckTrees(t)
        \/ TH_ReadPriceTree(t)
        \/ TH_ReadOptionTree(t)
        \/ TH_ReadExerciseTree(t)
        \/ TH_SaveSteps(t)
        \/ TH_SetSteps(t)
        \/ TH_RestoreSteps(t)

SpecThreads == InitThreads /\ [][NextThreads]_vars

(***************************************************************************)
(* Put-call parity (TEST 3 of test_binomial_tree.py): the call and the put *)
(* of one valid parameter set, priced by Black-Scholes and by a European   *)
(* tree.                                                                    *)
(***************************************************************************)
\* Valid parameter sets, and one with a volatility of 0.1%.
ParityInputs ==
    {Params(s, k, t, r, v, "call") :
        s \in {SCALE, 4 * SCALE}, k \in {SCALE, 4 * SCALE},
        t \in {SCALE \div 2, SCALE},
        r \in {-(SCALE \div 10), SCALE \div 20, SCALE \div 2},
        v \in {SCALE \div 5, 3 * (SCALE \div 10)}}
    \cup {Params(4 * SCALE, 4 * SCALE, SCALE, SCALE \div 20, SCALE \div 1000,
                 "call")}

\* spot - strike * np.exp(-risk_free_rate * time_to_maturity).
parity_theoretical(q) ==
    q.spot - FxMul(q.strike,
                   FxExp(-FxMul(q.risk_free_rate, q.time_to_maturity)))

BS_PutCallParity ==
    /\ \E c \in {BS_calculate_price([input EXCEPT !.option_type = "call"])} :
         \E p \in {BS_calculate_price([input EXCEPT !.option_type = "put"])} :
           ret' = [op |-> "bs.put_call_parity", raised |-> c.raised,
                   call |-> c.price, put |-> p.price,
                   theoretical |-> parity_theoretical(input)]
    /\ UNCHANGED <<input, bt, mc, rng, threads>>

\* probability is the p of line 97 the tree weighs its nodes with.
BT_PutCallParity(num_steps) ==
    /\ \E c \in {BT_calculate_price(BinomialTreeModel(num_steps, FALSE),
                                    [input EXCEPT !.option_type = "call"])} :
         \E p \in {BT_calculate_price(BinomialTreeModel(num_steps, FALSE),
                                      [input EXCEPT !.option_type = "put"])} :
           ret' = [op |-> "bt.put_call_parity", raised |-> c.raised,
                   num_steps |-> num_steps,
                   call |-> c.price, put |-> p.price,
                   theoretical |-> parity_theoretical(input),
                   probability |-> TreeParameters(input, num_steps).p]
    /\ UNCHANGED <<input, bt, mc, rng, threads>>

InitParity ==
    /\ input \in ParityInputs
    /\ bt = None
    /\ mc = [i \in MCIds |-> None]
    /\ rng = Unseeded
    /\ ret = [op |-> "start"]
    /\ threads = <<>>

NextParity ==
    \/ BS_PutCallParity
    \/ \E n \in PureStepCounts : BT_PutCallParity(n)

SpecParity == InitParity /\ [][NextParity]_vars

(***************************************************************************)
(* Properties.                                                             *)
(***************************************************************************)
\* The six checks in the order the documentation lists them, and the error
\* of each.
Checks(q) ==
    <<q.spot > 0, q.strike > 0, q.time_to_maturity > 0, q.volatility > 0,
      q.risk_free_rate >= -(SCALE \div 10) /\ q.risk_free_rate <= SCALE \div 2,
      Lower(q.option_type) \in {"call", "put"}>>

CheckErrors ==
    <<"ValueError:spot", "ValueError:strike", "ValueError:time_to_maturity",
      "ValueError:volatility", "ValueError:risk_free_rate",
      "ValueError:option_type">>

FirstFailingCheck(q) ==
    IF \A k \in 1..6 : Checks(q)[k] THEN "none"
    ELSE CheckErrors[CHOOSE k \in 1..6 :
                         /\ ~Checks(q)[k]
                         /\ \A j \in 1..(k - 1) : Checks(q)[j]]

\* C1: validate_inputs, and calculate_price of each of the three pricers,
\* raises the error of the first failing check in the order spot, strike,
\* time_to_maturity, volatility, risk_free_rate, option_type, and returns
\* normally only when all six checks pass.
C1_FirstFailingCheckIsRaised ==
    ret.op \in {"validate_inputs", "bs.calculate_price", "bt.calculate_price",
                "mc.calculate_price"}
        => ret.raised = FirstFailingCheck(ret.q)

\* A pricer was called with a maturity, a volatility and an option type
\* that all fail, and reported the maturity.
C1_Witness ==
    /\ ret.op = "mc.calculate_price"
    /\ ret.q.spot > 0 /\ ret.q.strike > 0
    /\ ret.q.time_to_maturity <= 0 /\ ret.q.volatility <= 0
    /\ ret.q.option_type = "straddle"
    /\ ret.raised = "ValueError:time_to_maturity"

\* C2: a calculate_price call with an invalid parameter raises the validation
\* error and leaves the BinomialTreeModel instance as it was: the lattice
\* get_tree_data returns, num_steps and american are unchanged, whatever was
\* called before.
C2_InvalidCallChangesNothing ==
    [][(ret'.op = "bt.calculate_price" /\ validate_inputs(ret'.q) # "none")
          => /\ ret'.raised = validate_inputs(ret'.q)
             /\ get_tree_data(bt'[1]) = get_tree_data(bt[1])
             /\ bt'[1].num_steps = bt[1].num_steps
             /\ bt'[1].american = bt[1].american]_vars

\* An invalid call was made on an instance that retains the lattice of an
\* earlier call that returned.
C2_Witness ==
    /\ ret.op = "bt.calculate_price"
    /\ ret.raised = "ValueError:option_type"
    /\ bt # None
    /\ bt[1].last_ok # None
    /\ get_tree_data(bt[1]) # None

\* The tolerance of a price comparison: 0.01.
Tolerance == SCALE \div 100

\* C3: for parameters that pass validation and num_steps >= 1, the American
\* price is at least the European price, and so is every node of the American
\* option lattice against the same node of the European one.
C3_AmericanAtLeastEuropean ==
    (ret.op = "american_vs_european" /\ ret.raised = "none")
        => /\ ret.american_price + Tolerance >= ret.european_price
           /\ \A i \in 0..ret.num_steps : \A j \in 0..i :
                  ret.american_data[1].option_tree[i][j] + Tolerance
                      >= ret.european_data[1].option_tree[i][j]

\* C4: get_tree_data returns None while no calculate_price call on the
\* instance has returned, and afterwards the three trees of the most recent
\* call that returned.
C4_TreeDataIsLastSuccessfulLattice ==
    bt # None =>
        LET data == get_tree_data(bt[1])
            last == bt[1].last_ok
        IN  IF last = None THEN data = None
            ELSE /\ data # None
                 /\ data[1].price_tree = last[1].price_tree
                 /\ data[1].option_tree = last[1].option_tree
                 /\ data[1].exercise_tree = last[1].exercise_tree

\* C5: num_steps and american of a BinomialTreeModel, and num_simulations,
\* num_steps, seed and antithetic of a MonteCarloModel, always equal the
\* constructor's arguments.
C5_ConfigurationIsImmutable ==
    /\ bt # None =>
           /\ bt[1].num_steps = bt[1].ctor_num_steps
           /\ bt[1].american = bt[1].ctor_american
    /\ \A i \in MCIds : mc[i] # None =>
           /\ mc[i][1].num_simulations = mc[i][1].ctor.num_simulations
           /\ mc[i][1].num_steps = mc[i][1].ctor.num_steps
           /\ mc[i][1].seed = mc[i][1].ctor.seed
           /\ mc[i][1].antithetic = mc[i][1].ctor.antithetic

\* C6: when get_convergence_analysis returns, the instance's num_steps (or
\* num_simulations) is what it was before the call, the k-th price was
\* computed with the k-th requested count, and sizes and prices have the
\* same length.
C6_ConvergenceRestoresAndPairs ==
    /\ (ret.op = "bt.get_convergence_analysis" /\ ret.raised = "none") =>
           /\ bt[1].num_steps = ret.before
           /\ ret.result[1].step_sizes = ret.sizes
           /\ Len(ret.result[1].prices) = Len(ret.sizes)
           /\ ret.used = ret.sizes
           /\ \A k \in 1..Len(ret.sizes) :
                  ret.result[1].prices[k] =
                      BT_calculate_price(
                          BinomialTreeModel(ret.sizes[k], bt[1].american),
                          ret.q).price
    /\ (ret.op = "mc.get_convergence_analysis" /\ ret.raised = "none") =>
           /\ mc[ret.id][1].num_simulations = ret.before
           /\ ret.result[1].simulation_sizes = ret.sizes
           /\ Len(ret.result[1].prices) = Len(ret.sizes)
           /\ ret.used = ret.sizes

\* A Monte Carlo convergence analysis returned on an instance whose
\* num_simulations is none of the requested sizes.
C6_Witness ==
    /\ ret.op = "mc.get_convergence_analysis"
    /\ ret.raised = "none"
    /\ Len(ret.sizes) = 2
    /\ \A k \in 1..Len(ret.sizes) : ret.sizes[k] # ret.before

\* C7: a price computed by an instance with a seed is the price any other
\* computation with the same seed, num_simulations, num_steps, antithetic
\* and parameters returns, the first call after seeding included.
C7_SeededPriceIsDeterministic ==
    (/\ ret.op = "mc.calculate_price"
     /\ ret.raised = "none"
     /\ mc[ret.id][1].seed # None
     /\ mc[ret.id][1].num_simulations = mc[ret.id][1].ctor.num_simulations)
        => ret.price =
               MC_calculate_price(mc[ret.id][1],
                                  RngSeed(mc[ret.id][1].seed[1]), ret.q).price

\* C8: constructing or pricing another MonteCarloModel instance does not
\* change the price a seeded instance returns next.
C8_OtherInstanceDoesNotInterfere ==
    [][\A i \in MCIds :
          (/\ mc[i] # None
           /\ mc[i][1].seed # None
           /\ ret'.op \in {"MonteCarloModel", "mc.calculate_price"}
           /\ ret'.id # i)
              => \A q \in MCParamSet :
                     MC_calculate_price(mc[i][1], rng', q).price
                         = MC_calculate_price(mc[i][1], rng, q).price]_vars

\* C9: calculate_all_greeks raises the validation error of every parameter
\* set calculate_price rejects, and returns no bundle for it.
C9_GreeksRaiseValidationError ==
    (ret.op = "greeks.calculate_all_greeks" /\ validate_inputs(ret.q) # "none")
        => /\ ret.raised = validate_inputs(ret.q)
           /\ ret.greeks = None

\* C10: no BinomialTreeModel exists that was constructed with num_steps <= 0,
\* and no MonteCarloModel that was constructed with num_simulations <= 0 or
\* num_steps <= 0.
C10_NoNonPositiveCount ==
    /\ bt # None => bt[1].ctor_num_steps >= 1
    /\ \A i \in MCIds : mc[i] # None =>
           /\ mc[i][1].ctor.num_simulations >= 1
           /\ mc[i][1].ctor.num_steps >= 1

\* a <= b on floats: false when either is NaN.
XLe(a, b) ==
    /\ a.k # "nan" /\ b.k # "nan"
    /\ IF a.k = "inf" THEN a.v < 0 \/ b = a
       ELSE IF b.k = "inf" THEN b.v > 0
       ELSE a.v <= b.v

\* C11: a result of calculate_price_with_confidence has lower_bound <= price
\* <= upper_bound, price the mean of the 10 batch prices, std_error >= 0 and
\* price - lower_bound = upper_bound - price.
C11_ConfidenceResultIsConsistent ==
    (ret.op = "mc.calculate_price_with_confidence" /\ ret.raised = "none")
        => LET r == ret.result[1]
           IN  /\ Len(ret.batch_prices) = 10
               /\ r.price = XMean(ret.batch_prices)
               /\ XLe(r.lower_bound, r.price)
               /\ XLe(r.price, r.upper_bound)
               /\ XLe(Num(0), r.std_error)
               /\ XSub(r.price, r.lower_bound) = XSub(r.upper_bound, r.price)

\* The payoff of the first k legs at one terminal spot as the documentation
\* states it.
RECURSIVE StatedPayoff(_, _, _)
StatedPayoff(legs, k, spot) ==
    IF k = 0 THEN 0
    ELSE LET leg == legs[k]
             intrinsic == IF leg.option_type = "call"
                          THEN (IF spot > leg.strike THEN spot - leg.strike ELSE 0)
                          ELSE (IF leg.strike > spot THEN leg.strike - spot ELSE 0)
         IN  StatedPayoff(legs, k - 1, spot)
             + (IF leg.position = "long"
                THEN leg.quantity * (intrinsic - leg.premium)
                ELSE leg.quantity * (leg.premium - intrinsic))

\* C12: calculate_payoff returns an array as long as the array of terminal
\* spots it is given, whose i-th entry is the sum over the legs of
\* quantity * (intrinsic - premium) for long legs and
\* quantity * (premium - intrinsic) for short legs at the i-th spot.
C12_PayoffIsSumOfLegPayoffs ==
    ret.op = "strategy.calculate_payoff"
        => /\ Len(ret.payoffs.data) = Len(ret.spot_range.data)
           /\ \A i \in 1..Len(ret.spot_range.data) :
                  ret.payoffs.data[i]
                      = StatedPayoff(input.legs, Len(input.legs),
                                     ret.spot_range.data[i])

\* C13: the analysis range of max_profit, max_loss and break_even_points has
\* NumSamples samples (1000 in the source), the first 50% below the smallest
\* leg strike and the last 50% above the largest, for every strategy with at
\* least one leg.
C13_AnalysisRangeSpansHalfStrikes ==
    (ret.op = "strategy.get_strategy_info" /\ input.legs # <<>>)
        => LET range == ret.info.analysis_range.data
               strikes == {input.legs[k].strike : k \in 1..Len(input.legs)}
               min_strike == CHOOSE k \in strikes : \A j \in strikes : k <= j
               max_strike == CHOOSE k \in strikes : \A j \in strikes : k >= j
           IN  /\ ret.info.raised = "none"
               /\ Len(range) = NumSamples
               /\ range[1] = min_strike - min_strike \div 2
               /\ range[NumSamples] = max_strike + max_strike \div 2

\* C14: get_strategy_info of long_straddle(K) with positive premiums reports
\* a positive max_profit, a negative max_loss, a break-even point below K
\* and one above K.
C14_LongStraddleProfitsBothWays ==
    (/\ ret.op = "strategy.get_strategy_info"
     /\ input.name = "Long Straddle"
     /\ \A k \in 1..Len(input.legs) : input.legs[k].premium > 0)
        => LET K == input.legs[1].strike
               points == ret.info.break_even_points
           IN  /\ ret.info.raised = "none"
               /\ ret.info.max_profit > 0
               /\ ret.info.max_loss < 0
               /\ \E i \in 1..Len(points) : points[i] < K
               /\ \E i \in 1..Len(points) : points[i] > K

\* The pairs (i, i + 1) of analysis-range samples whose payoffs have
\* strictly opposite signs, in ascending order of i.
RECURSIVE SignChanges(_, _)
SignChanges(payoffs, i) ==
    IF i >= Len(payoffs) THEN <<>>
    ELSE (IF \/ payoffs[i] < 0 /\ payoffs[i + 1] > 0
             \/ payoffs[i] > 0 /\ payoffs[i + 1] < 0
          THEN <<i>> ELSE <<>>) \o SignChanges(payoffs, i + 1)

\* The zero of the line through (s0, p0) and (s1, p1).
Interpolate(s0, p0, s1, p1) == s0 - FloorDiv(p0 * (s1 - s0), p1 - p0)

\* C15: break_even_points returns one point for each pair of consecutive
\* analysis-range samples whose payoffs have strictly opposite signs and no
\* other point; each is the linear interpolation of the zero between the
\* pair, strictly between the pair's spots; the points ascend.
C15_BreakEvensAreTheSignChanges ==
    (ret.op = "strategy.get_strategy_info" /\ ret.info.raised = "none")
        => LET range == ret.info.analysis_range
               payoffs == calculate_payoff(input, range).data
               pairs == SignChanges(payoffs, 1)
               points == ret.info.break_even_points
           IN  /\ Len(points) = Len(pairs)
               /\ \A k \in 1..Len(pairs) :
                      LET i == pairs[k]
                      IN  /\ points[k] = Interpolate(range.data[i], payoffs[i],
                                                     range.data[i + 1],
                                                     payoffs[i + 1])
                          /\ range.data[i] < points[k]
                          /\ points[k] < range.data[i + 1]
               /\ \A k \in 1..(Len(points) - 1) : points[k] < points[k + 1]

C15_Witness ==
    /\ ret.op = "strategy.get_strategy_info"
    /\ ret.info.raised = "none"
    /\ Len(ret.info.break_even_points) = 2

\* C16: the payoff of the strategy at every returned break-even point is
\* smaller than 0.01 in absolute value.
C16_BreakEvenPayoffIsZero ==
    ret.op = "strategy.break_even_accuracy"
        => \A i \in 1..Len(ret.break_even_points) :
               Abs(ret.payoffs[i]) < SCALE \div 100

\* C17: for bull_call_spread(lower, upper) with lower < upper whose long
\* premium exceeds the short premium by less than upper - lower,
\* net_premium is negative, max_profit = (upper - lower) - |net_premium|,
\* max_loss = net_premium, and break_even_points returns exactly one point,
\* strictly between lower and upper.
C17_BullCallSpreadMetrics ==
    (/\ ret.op = "strategy.get_strategy_info"
     /\ input.name = "Bull Call Spread"
     /\ input.legs[1].strike < input.legs[2].strike
     /\ input.legs[1].premium > input.legs[2].premium
     /\ input.legs[1].premium - input.legs[2].premium
            < input.legs[2].strike - input.legs[1].strike)
        => LET lower == input.legs[1].strike
               upper == input.legs[2].strike
               info == ret.info
           IN  /\ info.raised = "none"
               /\ info.net_premium < 0
               /\ info.max_profit = (upper - lower) - Abs(info.net_premium)
               /\ info.max_loss = info.net_premium
               /\ Len(info.break_even_points) = 1
               /\ lower < info.break_even_points[1]
               /\ info.break_even_points[1] < upper

\* The trio get_tree_data would return if it read the three trees of one
\* lattice.
TrioOf(lattice) ==
    [price_tree |-> Some(lattice.price_tree),
     option_tree |-> Some(lattice.option_tree),
     exercise_tree |-> Some(lattice.exercise_tree)]

\* Thread t has returned from get_tree_data with trees.
ReturnedTrees(t) ==
    /\ threads[t].op = "get_tree_data"
    /\ threads[t].pc = "done"
    /\ threads[t].data # None

\* C18: when calculate_price and get_tree_data on one instance are
\* serialized, the three trees get_tree_data returns are those of a single
\* calculate_price call (without serialization a mixed trio is reachable:
\* C18_Witness).
C18_SerializedTreeDataFromOneCall ==
    (ret.op = "threads" /\ input.serialized)
        => \A t \in ThreadIds :
               ReturnedTrees(t)
                   => \E lattice \in ret.lattices :
                          threads[t].data[1] = TrioOf(lattice)

C18_Witness ==
    /\ ret.op = "threads"
    /\ ~input.serialized
    /\ \E t \in ThreadIds :
           /\ ReturnedTrees(t)
           /\ \A lattice \in ret.lattices :
                  threads[t].data[1] # TrioOf(lattice)
           /\ \E a, b \in ret.lattices :
                  /\ threads[t].data[1].price_tree = Some(a.price_tree)
                  /\ threads[t].data[1].option_tree = Some(b.option_tree)

\* Every thread is outside the methods of the shared instance.
AllReturned == \A t \in ThreadIds : threads[t].pc \in {"idle", "done"}

\* C19: when the calls on one instance are serialized, every price is
\* computed with the step count its caller asked for, and num_steps is the
\* configured count whenever no call is running (without serialization a
\* price with another count and a changed num_steps after both calls have
\* returned are reachable: C19_Witness).
C19_SerializedCountIsRespected ==
    (ret.op = "threads" /\ input.serialized)
        => /\ \A t \in ThreadIds : ~threads[t].mismatch
           /\ AllReturned => bt.num_steps = bt.ctor_num_steps

C19_Witness ==
    /\ ret.op = "threads"
    /\ ~input.serialized
    /\ \A t \in ThreadIds : threads[t].pc = "done"
    /\ \E t \in ThreadIds : threads[t].mismatch
    /\ bt.num_steps # bt.ctor_num_steps

\* The rounding of the products of a Black-Scholes price.
ParityRounding == SCALE \div 2000

\* 0.1 at the prices of test_binomial_tree.py (spot 100), which are 25 times
\* those of ParityInputs.
ParityTolerance == SCALE \div 250

\* C20: for valid parameters call - put = spot - strike * e^(-rT), up to
\* rounding for Black-Scholes and within 0.1 (at a spot of 100) for the
\* European tree.
C20_PutCallParity ==
    /\ ret.op = "bs.put_call_parity"
           => /\ ret.raised = "none"
              /\ Abs(ret.call - ret.put - ret.theoretical) <= ParityRounding
    /\ ret.op = "bt.put_call_parity"
           => /\ ret.raised = "none"
              /\ Abs(ret.call - ret.put - ret.theoretical) < ParityTolerance

\* C21: at every non-terminal node (i, j) an American pricer sets the value to
\* max(continuation, exercise) and the exercise flag to exercise >
\* continuation; a European pricer sets the value to the continuation and
\* leaves every flag false; the terminal flags are false in both styles.
C21_BackwardInductionRule ==
    (ret.op = "bt.calculate_price" /\ ret.raised = "none")
        => LET n  == ret.num_steps
               tp == TreeParameters(ret.q, n)
               data == ret.data[1]
               continuation(i, j) ==
                   FxMul(tp.discount,
                         FxMul(tp.p, data.option_tree[i + 1][j + 1])
                             + FxMul(SCALE - tp.p, data.option_tree[i + 1][j]))
               exercise(i, j) ==
                   Intrinsic(Lower(ret.q.option_type), data.price_tree[i][j],
                             ret.q.strike)
           IN  /\ \A i \in 0..(n - 1) : \A j \in 0..i :
                      IF ret.american
                      THEN /\ data.option_tree[i][j]
                                  = Max2(continuation(i, j), exercise(i, j))
                           /\ data.exercise_tree[i][j]
                                  = (exercise(i, j) > continuation(i, j))
                      ELSE /\ data.option_tree[i][j] = continuation(i, j)
                           /\ ~data.exercise_tree[i][j]
               /\ \A j \in 0..n : ~data.exercise_tree[n][j]

\* An American lattice of two steps with a node that exercises early and a
\* node that is held.
C21_Witness ==
    /\ ret.op = "bt.calculate_price"
    /\ ret.raised = "none"
    /\ ret.american
    /\ ret.num_steps = MaxSteps
    /\ \E i \in 0..(MaxSteps - 1) : \E j \in 0..i :
           ret.data[1].exercise_tree[i][j]
    /\ \E i \in 0..(MaxSteps - 1) : \E j \in 0..i :
           /\ ~ret.data[1].exercise_tree[i][j]
           /\ ret.data[1].option_tree[i][j] > 0

\* C22: for every parameter set validation accepts and every num_steps >= 1
\* the up-probability p lies in [0, 1] and no option_tree entry is negative.
C22_UpProbabilityIsAProbability ==
    (ret.op = "bt.calculate_price" /\ ret.raised = "none")
        => /\ TreeParameters(ret.q, ret.num_steps).p >= 0
           /\ TreeParameters(ret.q, ret.num_steps).p <= SCALE
           /\ \A i \in 0..ret.num_steps : \A j \in 0..ret.num_steps :
                  ret.data[1].option_tree[i][j] >= 0

\* C23: whenever get_tree_data returns a lattice, the num_steps it reports is
\* the step count the returned trees were built with: each tree has
\* num_steps + 1 rows and columns, whatever was called on the instance before.
C23_TreeDataStepsMatchTrees ==
    (ret.op = "bt.get_tree_data" /\ ret.data # None)
        => LET data == ret.data[1]
               rows == 0..data.num_steps
               square(tree) ==
                   /\ DOMAIN tree = rows
                   /\ \A i \in rows : DOMAIN tree[i] = rows
           IN  /\ square(data.price_tree)
               /\ square(data.option_tree)
               /\ square(data.exercise_tree)

\* The perturbed parameter sets of the numeric Greeks as the documentation
\* lists them: the base, spot + h_S, spot - h_S, T - h_t, sigma + h_sigma,
\* r + h_r, with h_S = 1% of spot, h_sigma = 1% of sigma, h_r = 1 basis
\* point and h_t = 1 day.
Perturbed(q) ==
    [base      |-> q,
     spot_up   |-> [q EXCEPT !.spot = q.spot + FxMul(q.spot, SCALE \div 100)],
     spot_down |-> [q EXCEPT !.spot = q.spot - FxMul(q.spot, SCALE \div 100)],
     time_down |-> [q EXCEPT !.time_to_maturity =
                                 q.time_to_maturity - SCALE \div 365],
     vol_up    |-> [q EXCEPT !.volatility =
                                 q.volatility + FxMul(q.volatility, SCALE \div 100)],
     rate_up   |-> [q EXCEPT !.risk_free_rate =
                                 q.risk_free_rate + SCALE \div 10000]]

\* The order calculate_greeks_numerical prices them in; the theta repricing
\* is made only when time_to_maturity > h_t.
PricedInOrder(q) ==
    IF q.time_to_maturity > SCALE \div 365
    THEN <<"base", "spot_up", "spot_down", "time_down", "vol_up", "rate_up">>
    ELSE <<"base", "spot_up", "spot_down", "vol_up", "rate_up">>

\* C24: when a calculate_price call on a perturbed input raises,
\* calculate_greeks_numerical raises that error and returns no bundle; when
\* none raises it returns the five Greeks; Theta is the default 0, without
\* the repricing at T - h_t, exactly when time_to_maturity <= h_t.
C24_NumericGreeksNeverDefault ==
    ret.op = "bt.calculate_greeks_numerical"
        => LET q == ret.q
               order == PricedInOrder(q)
               raised(k) == BT_calculate_price(bt[1], Perturbed(q)[order[k]]).raised
               failing == {k \in 1..Len(order) : raised(k) # "none"}
               first == CHOOSE k \in failing : \A j \in failing : k <= j
           IN  IF failing # {}
               THEN /\ ret.raised = raised(first)
                    /\ ret.greeks = None
                    /\ ret.calls = first
               ELSE /\ ret.raised = "none"
                    /\ ret.greeks # None
                    /\ DOMAIN ret.greeks[1]
                           = {"Delta", "Gamma", "Theta", "Vega", "Rho"}
                    /\ ret.calls = Len(order)
                    /\ q.time_to_maturity <= SCALE \div 365
                           => /\ ret.calls = 5
                              /\ ret.greeks[1].Theta = 0
                    /\ q.time_to_maturity > SCALE \div 365
                           => /\ ret.calls = 6
                              /\ ret.greeks[1].Theta
                                     = FloorDiv(
                                           -FxDiv(BT_calculate_price(bt[1],
                                                      Perturbed(q).time_down).price
                                                  - BT_calculate_price(bt[1], q).price,
                                                  SCALE \div 365),
                                           365)

\* Both cases happened: the Greeks of a one-day option came back with the
\* default Theta after five pricings...
C24_Witness ==
    /\ ret.op = "bt.calculate_greeks_numerical"
    /\ ret.q.time_to_maturity = H_time
    /\ ret.raised = "none"
    /\ ret.calls = 5
    /\ ret.greeks[1].Theta = 0
    /\ ret.greeks[1].Delta # 0

\* ... and the Greeks of a valid parameter set raised the error of its
\* rate perturbation, the sixth pricing.
C24_WitnessRaised ==
    /\ ret.op = "bt.calculate_greeks_numerical"
    /\ validate_inputs(ret.q) = "none"
    /\ ret.raised = "ValueError:risk_free_rate"
    /\ ret.calls = 6
    /\ ret.greeks = None

\* C25: for every parameter set calculate_price accepts, every perturbed
\* parameter set calculate_greeks_numerical prices passes validation, and
\* calculate_greeks_numerical returns a bundle with all five Greeks.
C25_PerturbedInputsAreAccepted ==
    (/\ ret.op = "bt.calculate_greeks_numerical"
     /\ BT_calculate_price(bt[1], ret.q).raised = "none")
        => /\ \A k \in 1..Len(PricedInOrder(ret.q)) :
                  validate_inputs(Perturbed(ret.q)[PricedInOrder(ret.q)[k]])
                      = "none"
           /\ ret.raised = "none"
           /\ ret.greeks # None
           /\ DOMAIN ret.greeks[1] = {"Delta", "Gamma", "Theta", "Vega", "Rho"}

\* C26: with antithetic variates calculate_price draws num_simulations // 2
\* increment sequences of length num_steps and simulates those and their
\* negations: twice the drawn count of paths, the partner of every path
\* having the exact negation at every step; without them it simulates
\* exactly num_simulations paths.
C26_AntitheticPairing ==
    (ret.op = "mc.calculate_price" /\ ret.raised = "none")
        => LET drawn == ret.num_simulations \div 2
               z == ret.random_numbers
           IN  /\ Len(z) = ret.num_steps
               /\ \A t \in 1..ret.num_steps : Len(z[t]) = ret.paths
               /\ IF ret.antithetic
                  THEN /\ ret.paths = 2 * drawn
                       /\ \A i \in 1..drawn : \A t \in 1..ret.num_steps :
                              z[t][i + drawn] = -z[t][i]
                  ELSE ret.paths = ret.num_simulations

\* An odd simulation count with antithetic variates: one sequence drawn,
\* two paths simulated, with increments that are not all zero.
C26_Witness ==
    /\ ret.op = "mc.calculate_price"
    /\ ret.raised = "none"
    /\ ret.antithetic
    /\ ret.num_simulations = MaxSims - 1
    /\ ret.paths = 2
    /\ \E t \in 1..ret.num_steps : ret.random_numbers[t][1] # 0

\* C27: for num_simulations >= 1 and either antithetic setting,
\* calculate_price simulates at least one path, and each of the 10 batch
\* prices of calculate_price_with_confidence is computed from at least one
\* path.
C27_PriceAveragesAtLeastOnePath ==
    /\ (/\ ret.op = "mc.calculate_price"
        /\ ret.raised = "none"
        /\ mc[ret.id][1].num_simulations >= 1)
           => ret.paths >= 1
    /\ (/\ ret.op = "mc.calculate_price_with_confidence"
        /\ ret.raised = "none"
        /\ mc[ret.id][1].num_simulations >= 1)
           => /\ Len(ret.batch_paths) = 10
              /\ \A k \in 1..10 : ret.batch_paths[k] >= 1

\* C28: get_early_exercise_boundary on a European pricer returns None and
\* leaves the retained lattice as it was; on an American pricer it returns
\* num_points exercise times, the k-th being i * T / num_steps for the
\* smallest step i in 0..num_steps whose flag at node (i, i // 2) is set in
\* the lattice priced for the k-th scanned spot, or time_to_maturity when no
\* such step exists.
C28_EarlyExerciseBoundary ==
    [][(/\ ret'.op = "bt.get_early_exercise_boundary"
        /\ ret'.raised = "none"
        /\ bt # None)
          => IF ~bt[1].american
             THEN /\ ret'.result = None
                  /\ bt' = bt
             ELSE LET q == ret'.q
                      n == bt[1].num_steps
                      num_points == ret'.num_points
                      lo == ret'.spot_range[1]
                      hi == ret'.spot_range[2]
                      scanned(k) ==
                          IF num_points = 1 THEN lo
                          ELSE lo + FloorDiv((k - 1) * (hi - lo), num_points - 1)
                      flags(k) ==
                          BT_calculate_price(bt[1], [q EXCEPT !.spot = scanned(k)])
                              .self.last_exercise_tree[1]
                      flagged(k) == {i \in 0..n : flags(k)[i][i \div 2]}
                      first(k) == CHOOSE i \in flagged(k) :
                                      \A j \in flagged(k) : i <= j
                      expected(k) ==
                          IF flagged(k) = {} THEN q.time_to_maturity
                          ELSE FloorDiv(first(k) * q.time_to_maturity, n)
                  IN  /\ ret'.result # None
                      /\ Len(ret'.result[1].exercise_times) = num_points
                      /\ \A k \in 1..num_points :
                             /\ ret'.result[1].spot_prices[k] = scanned(k)
                             /\ ret'.result[1].exercise_times[k] = expected(k)]_vars

\* An American put scanned over two spots: exercised at once at the lower
\* spot, after the first step at the higher one.
C28_Witness ==
    /\ ret.op = "bt.get_early_exercise_boundary"
    /\ ret.raised = "none"
    /\ ret.result # None
    /\ bt[1].num_steps = MaxSteps
    /\ Len(ret.result[1].exercise_times) = MaxPoints
    /\ ret.result[1].exercise_times[1] = 0
    /\ ret.result[1].exercise_times[2] > 0
    /\ ret.result[1].exercise_times[2] < ret.q.time_to_maturity

\* C29: whenever the payoff is strictly negative at one analysis-range sample
\* and strictly positive at a later one (or the reverse), break_even_points
\* returns a break-even lying between the two samples, also when the payoff
\* is exactly zero at a sample in between.
C29_EveryZeroCrossingIsReported ==
    (ret.op = "strategy.get_strategy_info" /\ ret.info.raised = "none")
        => LET range == ret.info.analysis_range.data
               payoffs == calculate_payoff(input, ret.info.analysis_range).data
               points == ret.info.break_even_points
           IN  \A i \in 1..Len(range) : \A j \in (i + 1)..Len(range) :
                   (\/ payoffs[i] < 0 /\ payoffs[j] > 0
                    \/ payoffs[i] > 0 /\ payoffs[j] < 0)
                       => \E k \in 1..Len(points) :
                              /\ range[i] <= points[k]
                              /\ points[k] <= range[j]

\* C30: at every terminal spot the payoff of iron_condor(pl, pu, cl, cu) is
\* the payoff of bull_put_spread(pl, pu) plus the payoff of
\* bear_call_spread(cl, cu) of the same factory, and its net premium is the
\* sum of the two spreads' net premiums.
C30_IronCondorIsTwoSpreads ==
    ret.op = "factory.iron_condor"
        => /\ \A i \in 1..Len(ret.spots) :
                  ret.condor[i] = ret.bull_put[i] + ret.bear_call[i]
           /\ ret.condor_premium = ret.bull_put_premium + ret.bear_call_premium

=============================================================================
